---------------------------- MODULE Spec2Model ----------------------------
(***************************************************************************)
(* A model of wsdl2go: main (open the destination, decode the WSDL, run    *)
(* the encoder) and goEncoder.Encode (import resolution, cache building,   *)
(* struct / function generation, syntax check, gofmt).                     *)
(*                                                                         *)
(* Conventions.                                                            *)
(*  - A Go pointer that may be nil is a sequence of length 0 or 1.          *)
(*  - A Go string that may carry a namespace prefix ("tns:Ping") is a      *)
(*    record [pfx, local]; a string that never does is a TLA+ string.      *)
(*  - A Go map is a function over the finite set of its keys.              *)
(*  - Generated Go text is kept structured: a field is a record            *)
(*    [name, slice, typ, tag], a function a record of what its template    *)
(*    was executed with.                                                   *)
(***************************************************************************)
EXTENDS Integers, Sequences, FiniteSets, TLC

(* ------------------------------------------------------------------ *)
(* Bounds of the model                                                 *)
(* ------------------------------------------------------------------ *)

\* message parts per input message range over 0..MaxParts
MaxParts == 1
\* recursion fuel for struct field generation (Go's stack, abstractly)
MaxDepth == 4

(* ------------------------------------------------------------------ *)
(* Strings                                                             *)
(* ------------------------------------------------------------------ *)

QN(p, l) == [pfx |-> p, local |-> l]
NoQN == QN("", "")

\* strings.SplitN(s, ":", 2): the part after the first colon, or s itself
trimns(q) == q.local

\* the byte order sort.Strings uses, over the names of the model
SortedNames ==
  << "A", "B", "C", "Color", "Echo", "Level", "MIn", "MOut", "MWhen",
     "Missing",
     "Ping", "PingFunc", "X",
     "context", "date", "encoding/xml", "errors", "id", "int", "item",
     "items", "name", "ping", "reflect", "string", "type", "x" >>

Rank(s) == CHOOSE i \in 1..Len(SortedNames) : SortedNames[i] = s

RECURSIVE sortStrings(_)
sortStrings(S) ==
  IF S = {} THEN << >>
  ELSE LET m == CHOOSE x \in S : \A y \in S : Rank(x) <= Rank(y)
       IN  << m >> \o sortStrings(S \ {m})

\* strings.Title on each part left by invalidGoSymbol, concatenated; the
\* names of the model hold no invalid character, so one part is titled
Title ==
  [ s \in { SortedNames[i] : i \in 1..Len(SortedNames) } |->
      CASE s = "date"  -> "Date"
        [] s = "id"    -> "Id"
        [] s = "int"   -> "Int"
        [] s = "ping"  -> "Ping"
        [] s = "string" -> "String"
        [] s = "item"  -> "Item"
        [] s = "items" -> "Items"
        [] s = "name"  -> "Name"
        [] s = "type"  -> "Type"
        [] s = "x"     -> "X"
        [] OTHER       -> s ]

goSymbol(s) == IF s \in DOMAIN Title THEN Title[s] ELSE s

(* ------------------------------------------------------------------ *)
(* The decoded document model (package wsdl)                           *)
(* ------------------------------------------------------------------ *)

Element(name, ref, type, min, max, nillable, ct) ==
  [ Name |-> name, Ref |-> ref, Type |-> type, Min |-> min, Max |-> max,
    Nillable |-> nillable, ComplexType |-> ct ]

\* encoding/xml on the field Min int `xml:"minOccurs,attr"`: the number
\* written in the attribute, and the zero value when the element carries no
\* such attribute
minOccursAttr(attr) ==
  CASE attr = ""  -> 0
    [] attr = "0" -> 0
    [] attr = "1" -> 1
    [] attr = "2" -> 2

Attribute(name, type) ==
  [ Name |-> name, Ref |-> NoQN, Type |-> type, ArrayType |-> "",
    Min |-> 0, Nillable |-> FALSE ]

Sequence(cts, els, any, choices) ==
  [ ComplexTypes |-> cts, Elements |-> els, Any |-> any, Choices |-> choices ]

Choice(cts, els, any) ==
  [ ComplexTypes |-> cts, Elements |-> els, Any |-> any ]

Extension(base, seq, choice, attrs) ==
  [ Base |-> base, Sequence |-> seq, Choice |-> choice, Attributes |-> attrs ]

ComplexContent(ext, restr) == [ Extension |-> ext, Restriction |-> restr ]

Enum(value) == [ Value |-> value ]
Restriction(base, enum) == [ Base |-> base, Enum |-> enum, Attributes |-> << >> ]
Union(memberTypes) == [ MemberTypes |-> memberTypes ]
SimpleType(name, union, restr) ==
  [ Name |-> name, Union |-> union, Restriction |-> restr,
    TargetNamespace |-> "" ]

ComplexType(name, abstract, all, cc, seq, choice, attrs) ==
  [ Name |-> name, Abstract |-> abstract, AllElements |-> all,
    ComplexContent |-> cc, Sequence |-> seq, Choice |-> choice,
    Attributes |-> attrs, TargetNamespace |-> "" ]


(* ------------------------------------------------------------------ *)
(* Type mapping                                                        *)
(* ------------------------------------------------------------------ *)

GoType(ptr, name) == [ ptr |-> ptr, name |-> name ]

\* strings.ToLower over the type names of the model
ToLower(v) ==
  CASE v = "Int"    -> "int"
    [] v = "String" -> "string"
    [] v = "Date"   -> "date"
    [] v = "dateTime" -> "datetime"
    [] OTHER        -> v

\* the primitive table consulted before the cached simple types
primitiveFirst(ge, v, l) ==
  CASE l = "int"      -> [ ptr |-> FALSE, name |-> "int" ]
    [] l = "string"   -> [ ptr |-> FALSE, name |-> "string" ]
    [] l = "date"     -> [ ptr |-> FALSE, name |-> "Date" ]
    [] l = "datetime" -> [ ptr |-> FALSE, name |-> "DateTime" ]
    [] OTHER          -> [ ptr |-> v \notin DOMAIN ge.stypes, name |-> goSymbol(v) ]

\* goEncoder.wsdl2goType: cached simple type, else primitive, else pointer;
\* v is the local name and l its lower-case form
wsdl2goTypeOf(ge, v, l) ==
  IF v \in DOMAIN ge.stypes THEN GoType(FALSE, goSymbol(v))
  ELSE CASE l = "int"      -> GoType(FALSE, "int")
         [] l = "long"     -> GoType(FALSE, "int64")
         [] l = "boolean"  -> GoType(FALSE, "bool")
         [] l = "string"   -> GoType(FALSE, "string")
         [] l = "date"     -> GoType(FALSE, "Date")
         [] l = "time"     -> GoType(FALSE, "Time")
         [] l = "datetime" -> GoType(FALSE, "DateTime")
         [] l = "duration" -> GoType(FALSE, "Duration")
         [] l = "anysequence" -> GoType(FALSE, "interface{}")
         [] OTHER          -> GoType(TRUE, goSymbol(v))

wsdl2goType(ge, t) == wsdl2goTypeOf(ge, trimns(t), ToLower(trimns(t)))

\* the flag one call of wsdl2goType sets, as the name of its marker type:
\* ge.needsDateType = true and the like, in the branches of the switch
needsTypeOf(ge, v, l) ==
  IF v \in DOMAIN ge.stypes THEN {}
  ELSE CASE l = "date"     -> { "Date" }
         [] l = "time"     -> { "Time" }
         [] l = "datetime" -> { "DateTime" }
         [] l = "duration" -> { "Duration" }
         [] OTHER          -> {}

\* the encoder after the call wsdl2goType(t)
wsdl2goTypeEncoder(ge, t) ==
  [ ge EXCEPT !.needsDateTypes =
                @ \cup needsTypeOf(ge, trimns(t), ToLower(trimns(t))) ]

\* the marker types, in the order genDateTypes writes them
DateTypeNames == << "Date", "Time", "DateTime", "Duration" >>

\* the flags needsDateType, needsTimeType, needsDateTimeType and
\* needsDurationType, kept as the set of the marker types whose flag is
\* set: the flags wsdl2goType has set when its calls returned the types ts.
\* A result names a marker type by the branch that sets the flag, unless a
\* cached simple type has that Go name
dateFlags(ge, ts) ==
  { t.name : t \in { x \in ts :
      /\ \E i \in DOMAIN DateTypeNames : DateTypeNames[i] = x.name
      /\ \A n \in DOMAIN ge.stypes : goSymbol(n) # x.name } }

\* goEncoder.genDateTypes: "type Date string" and the like, one for each
\* flag that is set
RECURSIVE genDateTypes(_, _)
genDateTypes(needs, names) ==
  IF names = << >> THEN << >>
  ELSE (IF Head(names) \in needs THEN << Head(names) >> ELSE << >>)
         \o genDateTypes(needs, Tail(names))

(* ------------------------------------------------------------------ *)
(* Element cache                                                       *)
(* ------------------------------------------------------------------ *)

Put(m, k, v) == [ x \in (DOMAIN m) \cup {k} |-> IF x = k THEN v ELSE m[x] ]

\* the elements of an optional sequence / choice, nil giving none
ElementsOf(opt) == IF opt = << >> THEN << >> ELSE opt[1].Elements

\* the renaming of cacheElements: an element without name or type that
\* refers to another is named after its target and typed by that name
refElement(el) ==
  IF (el.Name = "" \/ el.Type = NoQN) /\ el.Ref # NoQN
  THEN [ el EXCEPT !.Name = trimns(el.Ref), !.Type = QN("", trimns(el.Ref)) ]
  ELSE el

RECURSIVE cacheElements(_, _)

\* one turn of the loop of cacheElements over el0, el being el0 renamed:
\* the first registration of a name wins
cacheElement(elements, el0, el) ==
  IF (el0.Name = "" \/ el0.Type = NoQN) /\ el0.Ref = NoQN THEN elements
  ELSE IF el.Name \in DOMAIN elements THEN elements
  ELSE IF el.ComplexType = << >> THEN Put(elements, el.Name, el)
  ELSE cacheElements(
         cacheElements(
           cacheElements(Put(elements, el.Name, el),
                         el.ComplexType[1].AllElements),
           ElementsOf(el.ComplexType[1].Sequence)),
         ElementsOf(el.ComplexType[1].Choice))

\* goEncoder.cacheElements
cacheElements(elements, list) ==
  IF list = << >> THEN elements
  ELSE cacheElements(cacheElement(elements, Head(list), refElement(Head(list))),
                     Tail(list))

RECURSIVE cacheComplexTypeElements(_, _)
RECURSIVE cacheComplexTypesElements(_, _)
RECURSIVE cacheChoicesElements(_, _)

\* goEncoder.cacheChoiceTypeElements
cacheChoiceTypeElements(elements, choice) ==
  IF choice = << >> THEN elements
  ELSE cacheElements(
         cacheComplexTypesElements(elements, choice[1].ComplexTypes),
         choice[1].Elements)

\* the extension part of cacheComplexTypeElements
cacheExtensionElements(elements, cce) ==
  IF cce = << >> THEN elements
  ELSE cacheChoiceTypeElements(
         IF cce[1].Sequence = << >> THEN elements
         ELSE cacheChoicesElements(
                cacheElements(
                  cacheComplexTypesElements(elements,
                                            cce[1].Sequence[1].ComplexTypes),
                  cce[1].Sequence[1].Elements),
                cce[1].Sequence[1].Choices),
         cce[1].Choice)

\* goEncoder.cacheComplexTypeElements
cacheComplexTypeElements(elements, ct) ==
  cacheExtensionElements(
    cacheElements(
      cacheElements(cacheElements(elements, ct.AllElements),
                    ElementsOf(ct.Sequence)),
      ElementsOf(ct.Choice)),
    IF ct.ComplexContent = << >> THEN << >>
    ELSE ct.ComplexContent[1].Extension)

\* the loop "for _, cct := range ...ComplexTypes"
cacheComplexTypesElements(elements, cts) ==
  IF cts = << >> THEN elements
  ELSE cacheComplexTypesElements(
         cacheComplexTypeElements(elements, Head(cts)), Tail(cts))

\* the loop "for _, choice := range seq.Choices"
cacheChoicesElements(elements, choices) ==
  IF choices = << >> THEN elements
  ELSE cacheChoicesElements(
         cacheChoiceTypeElements(elements, << Head(choices) >>), Tail(choices))

\* the first loop of cacheTypes: a top-level element with an inline complex
\* type and no type attribute becomes a complex type of the element's name
RECURSIVE cacheElementTypes(_, _)
cacheElementTypes(ctypes, els) ==
  IF els = << >> THEN ctypes
  ELSE LET v == Head(els)
       IN  cacheElementTypes(
             IF v.Type = NoQN /\ v.ComplexType # << >>
             THEN Put(ctypes, v.Name, [ v.ComplexType[1] EXCEPT !.Name = v.Name ])
             ELSE ctypes,
             Tail(els))

\* the loops "ge.stypes[v.Name] = v" and "ge.ctypes[v.Name] = v"
RECURSIVE cacheNamed(_, _)
cacheNamed(m, list) ==
  IF list = << >> THEN m
  ELSE cacheNamed(Put(m, Head(list).Name, Head(list)), Tail(list))

\* goEncoder.cacheTypes; order is the order in which Go's range happens to
\* visit the keys of ge.ctypes in the last loop
cacheTypes(schema, order) ==
  LET ctypes == cacheNamed(cacheElementTypes(<< >>, schema.Elements),
                           schema.ComplexTypes)
      stypes == cacheNamed(<< >>, schema.SimpleTypes)
      top    == cacheElements(<< >>, schema.Elements)
      seqOf  == [ i \in 1..Len(order) |-> ctypes[order[i]] ]
  IN  [ stypes   |-> stypes,
        ctypes   |-> ctypes,
        elements |-> cacheComplexTypesElements(top, seqOf) ]

\* every order Go's map iteration may produce for a set of keys
Orders(S) ==
  { o \in [ 1..Cardinality(S) -> S ] : \A x \in S : \E i \in DOMAIN o : o[i] = x }


(* ------------------------------------------------------------------ *)
(* Struct fields                                                       *)
(* ------------------------------------------------------------------ *)

Field(name, slice, typ, outer, inner, omitempty, attr) ==
  [ name |-> name, slice |-> slice, typ |-> typ,
    tag |-> [ outer |-> outer, inner |-> inner,
              omitempty |-> omitempty, attr |-> attr ] ]

\* the choice of an inline complex type read as a sequence
ChoiceAsSequence(c) == Sequence(c.ComplexTypes, c.Elements, c.Any, << >>)

\* the first half of genElementField: a reference is replaced by the cached
\* element of that name; nothing is generated when there is none
ResolveRef(ge, el) ==
  IF el.Ref # NoQN
  THEN IF trimns(el.Ref) \in DOMAIN ge.elements
       THEN << ge.elements[trimns(el.Ref)] >>
       ELSE << >>
  ELSE << el >>

\* the sequence genElementField looks into: the inline type's sequence,
\* or its choice read as a sequence
InlineSequence(ct) ==
  IF ct.Sequence = << >> /\ ct.Choice # << >>
  THEN << ChoiceAsSequence(ct.Choice[1]) >>
  ELSE ct.Sequence

Collapsed(el, slicetype) == [ el |-> el, slicetype |-> slicetype ]

\* the branch "if seq != nil" of genElementField
CollapseInto(el, seq) ==
  IF seq = << >> THEN Collapsed(el, "")
  ELSE IF Len(seq[1].Elements) = 1
       THEN Collapsed([ seq[1].Elements[1] EXCEPT !.Name = el.Name ],
                      seq[1].Elements[1].Name)
  ELSE IF Len(seq[1].Any) = 1
       THEN Collapsed(Element(el.Name, NoQN, QN("", "anysequence"),
                              seq[1].Any[1].Min, seq[1].Any[1].Max,
                              FALSE, << >>),
                      el.Name)
  ELSE Collapsed(el, "")

\* an element that is never collapsed
NoCollapse(el) == Collapsed(el, "")

\* the middle of genElementField: an untyped element whose inline sequence
\* (or choice) holds exactly one element is replaced by a copy of that
\* element under the outer name; one holding a single <any> by anysequence
Collapse(el) ==
  IF el.Type = NoQN /\ el.ComplexType # << >>
  THEN CollapseInto(el, InlineSequence(el.ComplexType[1]))
  ELSE Collapsed(el, "")

\* the "[]" test of genElementField
IsRepeated(el) == el.Max # "" /\ el.Max # "1"

\* the "omitempty" test of genElementField and genAttributeField
IsOptional(el) == el.Nillable \/ el.Min = 0

\* the type of a field: a pointer whenever the field is optional
FieldType(typ, opt) == IF opt THEN GoType(TRUE, typ.name) ELSE typ

\* the end of genElementField: the field of the element el
ElementField(ge, el, slicetype) ==
  Field(goSymbol(el.Name), IsRepeated(el),
        FieldType(wsdl2goType(ge, IF el.Type = NoQN THEN QN("", "string")
                                  ELSE el.Type),
                  IsOptional(el)),
        el.Name,
        IF IsRepeated(el) THEN slicetype ELSE "",
        IsOptional(el), FALSE)

CollapsedField(ge, c) == << ElementField(ge, c.el, c.slicetype) >>

ResolvedField(ge, r) ==
  IF r = << >> THEN << >> ELSE CollapsedField(ge, Collapse(r[1]))

\* goEncoder.genElementField
genElementField(ge, el) == ResolvedField(ge, ResolveRef(ge, el))

AttributeField(ge, attr, name) ==
  << Field(goSymbol(name), FALSE,
           wsdl2goType(ge, IF attr.Type = NoQN THEN QN("", "string")
                           ELSE attr.Type),
           name, "", IsOptional(attr), TRUE) >>

\* goEncoder.genAttributeField
genAttributeField(ge, attr) ==
  AttributeField(ge, attr,
                 IF attr.Name = "" /\ attr.Ref # NoQN
                 THEN trimns(attr.Ref) ELSE attr.Name)

RECURSIVE genElementFields(_, _)
genElementFields(ge, els) ==
  IF els = << >> THEN << >>
  ELSE genElementField(ge, Head(els)) \o genElementFields(ge, Tail(els))

RECURSIVE genAttributeFields(_, _)
genAttributeFields(ge, attrs) ==
  IF attrs = << >> THEN << >>
  ELSE genAttributeField(ge, Head(attrs)) \o genAttributeFields(ge, Tail(attrs))

\* the loop over ct.Sequence.Choices in genElements
RECURSIVE genChoicesFields(_, _)
genChoicesFields(ge, choices) ==
  IF choices = << >> THEN << >>
  ELSE genElementFields(ge, Head(choices).Elements)
         \o genChoicesFields(ge, Tail(choices))

\* goEncoder.genElements
genElements(ge, ct) ==
  genElementFields(ge, ct.AllElements)
    \o (IF ct.Sequence = << >> THEN << >>
        ELSE genElementFields(ge, ct.Sequence[1].Elements)
               \o genChoicesFields(ge, ct.Sequence[1].Choices))
    \o genElementFields(ge, ElementsOf(ct.Choice))
    \o genAttributeFields(ge, ct.Attributes)

RECURSIVE genComplexTypesElements(_, _)
genComplexTypesElements(ge, cts) ==
  IF cts = << >> THEN << >>
  ELSE genElements(ge, Head(cts)) \o genComplexTypesElements(ge, Tail(cts))

\* the sequences genComplexContent collects: the extension's sequence, the
\* choices of that sequence, then the extension's choice
RECURSIVE ChoicesAsSequences(_)
ChoicesAsSequences(choices) ==
  IF choices = << >> THEN << >>
  ELSE << ChoiceAsSequence(Head(choices)) >> \o ChoicesAsSequences(Tail(choices))

ExtensionSequences(ext) ==
  (IF ext.Sequence = << >> THEN << >>
   ELSE << ext.Sequence[1] >> \o ChoicesAsSequences(ext.Sequence[1].Choices))
    \o (IF ext.Choice = << >> THEN << >>
        ELSE << ChoiceAsSequence(ext.Choice[1]) >>)

RECURSIVE genSequencesFields(_, _)
genSequencesFields(ge, seqs) ==
  IF seqs = << >> THEN << >>
  ELSE genComplexTypesElements(ge, Head(seqs).ComplexTypes)
         \o genElementFields(ge, Head(seqs).Elements)
         \o genSequencesFields(ge, Tail(seqs))

\* what a generator returns: its fields, or ok = FALSE when the recursion
\* never returned (the goroutine's stack is exhausted)
Gen(ok, fields) == [ ok |-> ok, fields |-> fields ]

RECURSIVE genStructFields(_, _, _)

\* fields appended to what a generator returned
GenAppend(g, fields) == IF g.ok THEN Gen(TRUE, g.fields \o fields) ELSE g

\* goEncoder.genComplexContent: the fields of the base type first, then the
\* extension's attributes, then the elements of its sequences
genExtension(ge, ext, fuel) ==
  GenAppend(IF ext.Base # NoQN /\ trimns(ext.Base) \in DOMAIN ge.ctypes
            THEN genStructFields(ge, ge.ctypes[trimns(ext.Base)], fuel - 1)
            ELSE Gen(TRUE, << >>),
            genAttributeFields(ge, ext.Attributes)
              \o genSequencesFields(ge, ExtensionSequences(ext)))

genComplexContent(ge, ct, fuel) ==
  IF ct.ComplexContent = << >> \/ ct.ComplexContent[1].Extension = << >>
  THEN Gen(TRUE, << >>)
  ELSE genExtension(ge, ct.ComplexContent[1].Extension[1], fuel)

\* goEncoder.genStructFields
genStructFields(ge, ct, fuel) ==
  IF fuel = 0 THEN Gen(FALSE, << >>)
  ELSE GenAppend(genComplexContent(ge, ct, fuel), genElements(ge, ct))

(* ------------------------------------------------------------------ *)
(* Type declarations                                                   *)
(* ------------------------------------------------------------------ *)

\* goEncoder.genXMLName: the XMLName member of a type some input message
\* part refers to
genXMLName(ge, targetNamespace, name) ==
  IF name \in DOMAIN ge.needsTag
  THEN << IF ge.localNamespace = ""
          THEN [ ns |-> targetNamespace, local |-> ge.needsTag[name] ]
          ELSE [ ns |-> ge.localNamespace, local |-> ge.needsTag[name] ] >>
  ELSE << >>

Decl(name, kind, xmlname, fields, xsi) ==
  [ name |-> name, kind |-> kind, xmlname |-> xmlname, fields |-> fields,
    xsi |-> xsi ]

\* the counter c of genGoStruct: which of all / extension / sequence-choice
\* content is missing
EmptyCount(ct) ==
  (IF Len(ct.AllElements) = 0 THEN 1 ELSE 0)
  + (IF ct.ComplexContent = << >> \/ ct.ComplexContent[1].Extension = << >>
     THEN 1 ELSE 0)
  + (IF ct.Sequence = << >> /\ ct.Choice = << >> THEN 1
     ELSE IF ct.Sequence # << >>
             /\ Len(ct.Sequence[1].ComplexTypes) = 0
             /\ Len(ct.Sequence[1].Elements) = 0
             /\ Len(ct.Sequence[1].Choices) = 0 THEN 1
     ELSE IF ct.Choice # << >>
             /\ Len(ct.Choice[1].ComplexTypes) = 0
             /\ Len(ct.Choice[1].Elements) = 0 THEN 1
     ELSE 0)

\* what genGoStruct returns
GoStruct(ok, decl) == [ ok |-> ok, decl |-> decl ]

\* no restriction taken for a SOAP array
NotArray(restr) == FALSE

\* the restriction of a complex type is a SOAP array
IsArray(restr) ==
  restr # << >> /\ Len(restr[1].Attributes) = 1
    /\ restr[1].Attributes[1].ArrayType # ""

\* the last branch of genGoStruct: a struct of the fields g
StructOf(ge, d, ct, name, g) ==
  GoStruct(g.ok,
           Decl(name, "struct", genXMLName(ge, d.TargetNamespace, name),
                g.fields,
                ct.ComplexContent # << >>
                  /\ ct.ComplexContent[1].Extension # << >>))

genGoStructNamed(ge, d, ct, name) ==
  IF ct.Abstract
  THEN GoStruct(TRUE, Decl(name, "interface", << >>, << >>, FALSE))
  ELSE IF ct.Sequence # << >> /\ ct.Sequence[1].Any # << >>
            /\ Len(ct.Sequence[1].Elements) = 0
  THEN GoStruct(TRUE, Decl(name, "anyslice", << >>, << >>, FALSE))
  ELSE IF ct.Choice # << >> /\ ct.Choice[1].Any # << >>
            /\ Len(ct.Choice[1].Elements) = 0
  THEN GoStruct(TRUE, Decl(name, "anyslice", << >>, << >>, FALSE))
  ELSE IF IsArray(IF ct.ComplexContent = << >> THEN << >>
                  ELSE ct.ComplexContent[1].Restriction)
  THEN GoStruct(TRUE, Decl(name, "array", << >>, << >>, FALSE))
  ELSE IF EmptyCount(ct) > 2 /\ Len(ct.Attributes) = 0
  THEN GoStruct(TRUE, Decl(name, "struct",
                           genXMLName(ge, d.TargetNamespace, name),
                           << >>, FALSE))
  ELSE StructOf(ge, d, ct, name, genStructFields(ge, ct, MaxDepth))

\* goEncoder.genGoStruct; ok = FALSE when field generation never returned
genGoStruct(ge, d, ct) == genGoStructNamed(ge, d, ct, goSymbol(ct.Name))

\* goEncoder.genGoXMLTypeFunction: whether SetXMLType is written for ct,
\* and with which namespace
genGoXMLTypeFunction(ct) ==
  IF ct.ComplexContent = << >> \/ ct.ComplexContent[1].Extension = << >>
       \/ ct.TargetNamespace = ""
  THEN << >>
  ELSE IF ct.ComplexContent[1].Extension[1].Base # NoQN /\ ~ct.Abstract
       THEN << [ type |-> goSymbol(ct.Name), xsi |-> ct.Name,
                 ns |-> ct.TargetNamespace ] >>
       ELSE << >>

\* goEncoder.sanitizedOperationsType
\* ("Operation" + goSymbol(opName), over the message names of the model)
sanitizedOperationsType(opName) ==
  CASE goSymbol(opName) = "MIn"     -> "OperationMIn"
    [] goSymbol(opName) = "MOut"    -> "OperationMOut"
    [] goSymbol(opName) = "MWhen"   -> "OperationMWhen"
    [] goSymbol(opName) = "Missing" -> "OperationMissing"
    [] OTHER                        -> "Operation"

\* goEncoder.genOpStructMessage: the wrapper struct of a message
RECURSIVE genPartFields(_, _)
genPartFields(ge, parts) ==
  IF parts = << >> THEN << >>
  ELSE LET part == Head(parts)
           wsdlType == IF part.Type = NoQN THEN part.Element ELSE part.Type
       IN  genElementField(ge, Element(part.Name, NoQN, wsdlType, 0, "",
                                       FALSE, << >>))
             \o genPartFields(ge, Tail(parts))

genOpStructMessage(ge, message) ==
  Decl(sanitizedOperationsType(message.Name), "opstruct", << >>,
       genPartFields(ge, message.Parts), FALSE)

\* what genGoOpStruct returns
OpStructs(ok, decls) == [ ok |-> ok, decls |-> decls ]

\* the wrappers of the input message im and the output message om
genMessageStructs(ge, im, om) ==
  OpStructs(TRUE,
            (IF Len(im.Parts) > 0
             THEN << genOpStructMessage(ge, im) >> ELSE << >>)
              \o << genOpStructMessage(ge, om) >>)

genGoOpStructOf(ge, op) ==
  IF op.Input = << >> \/ trimns(op.Input[1].Message) \notin DOMAIN ge.messages
  THEN OpStructs(FALSE, << >>)
  ELSE IF op.Output = << >>
            \/ trimns(op.Output[1].Message) \notin DOMAIN ge.messages
  THEN OpStructs(FALSE, << >>)
  ELSE genMessageStructs(ge, ge.messages[trimns(op.Input[1].Message)],
                         ge.messages[trimns(op.Output[1].Message)])

\* goEncoder.genGoOpStruct; ok = FALSE when a nil pointer is dereferenced:
\* the binding names no port-type operation, the operation has no input or
\* no output, or one of its messages is not cached
genGoOpStruct(ge, bo) ==
  IF bo.Name \notin DOMAIN ge.funcs THEN OpStructs(FALSE, << >>)
  ELSE genGoOpStructOf(ge, ge.funcs[bo.Name])

GoStructs(ok, decls, xmltypes) ==
  [ ok |-> ok, decls |-> decls, xmltypes |-> xmltypes ]

\* a declaration and its SetXMLType put before those of the types after it
ConsStruct(g, xmltype, r) ==
  IF g.ok /\ r.ok
  THEN GoStructs(TRUE, << g.decl >> \o r.decls, xmltype \o r.xmltypes)
  ELSE GoStructs(FALSE, << >>, << >>)

\* the loops of writeGoTypes, over names already sorted
RECURSIVE genGoStructs(_, _, _)
genGoStructs(ge, d, names) ==
  IF names = << >> THEN GoStructs(TRUE, << >>, << >>)
  ELSE ConsStruct(genGoStruct(ge, d, ge.ctypes[Head(names)]),
                  genGoXMLTypeFunction(ge.ctypes[Head(names)]),
                  genGoStructs(ge, d, Tail(names)))

ConsOpStructs(g, r) ==
  IF g.ok /\ r.ok THEN OpStructs(TRUE, g.decls \o r.decls)
  ELSE OpStructs(FALSE, << >>)

RECURSIVE genGoOpStructs(_, _)
genGoOpStructs(ge, names) ==
  IF names = << >> THEN OpStructs(TRUE, << >>)
  ELSE ConsOpStructs(genGoOpStruct(ge, ge.soapOps[Head(names)]),
                     genGoOpStructs(ge, Tail(names)))

\* strconv.Quote(v): the Go string literal that denotes v
Quote(v) == [ quoted |-> TRUE, text |-> v ]

\* v written into the text as it is
Raw(v) == [ quoted |-> FALSE, text |-> v ]

\* the data validatorT is executed with
Validator(typeName, t, args) == [ TypeName |-> typeName, Type |-> t, Args |-> args ]

\* goEncoder.genValidator: nothing without enumeration, else the values
\* of the enumeration, quoted when the base maps to string
genValidator(ge, typeName, r) ==
  IF Len(r.Enum) = 0 THEN << >>
  ELSE << Validator(typeName, wsdl2goType(ge, r.Base),
                    [ i \in DOMAIN r.Enum |->
                        IF wsdl2goType(ge, r.Base) = GoType(FALSE, "string")
                        THEN Quote(r.Enum[i].Value)
                        ELSE Raw(r.Enum[i].Value) ]) >>

\* the declaration of one simple type: "type stname base" and its
\* validator, or "type stname interface{}" for a union
SimpleDecl(name, type, validator) ==
  [ name |-> name, type |-> type, validator |-> validator ]

genSimpleType(ge, st) ==
  IF st.Restriction # << >>
  THEN << SimpleDecl(goSymbol(st.Name), wsdl2goType(ge, st.Restriction[1].Base),
                     genValidator(ge, goSymbol(st.Name), st.Restriction[1])) >>
  ELSE IF st.Union # << >>
  THEN << SimpleDecl(goSymbol(st.Name), GoType(FALSE, "interface{}"), << >>) >>
  ELSE << >>

\* the first loop of writeGoTypes, over names already sorted
RECURSIVE genSimpleTypes(_, _)
genSimpleTypes(ge, names) ==
  IF names = << >> THEN << >>
  ELSE genSimpleType(ge, ge.stypes[Head(names)])
         \o genSimpleTypes(ge, Tail(names))

sortedSimpleTypes(ge) == sortStrings(DOMAIN ge.stypes)
sortedComplexTypes(ge) == sortStrings(DOMAIN ge.ctypes)
sortedOperations(ge) == sortStrings(DOMAIN ge.soapOps)

\* the types the first loop of writeGoTypes converts: the base of each
\* restriction and every member type of each union
simpleConversions(ge) ==
  UNION { IF ge.stypes[n].Restriction # << >>
          THEN { wsdl2goType(ge, ge.stypes[n].Restriction[1].Base) }
          ELSE IF ge.stypes[n].Union # << >>
          THEN { wsdl2goType(ge, ge.stypes[n].Union[1].MemberTypes[i]) :
                   i \in DOMAIN ge.stypes[n].Union[1].MemberTypes }
          ELSE {} : n \in DOMAIN ge.stypes }

\* the types of the fields of the declarations decls
fieldTypes(decls) ==
  UNION { { decls[i].fields[j].typ : j \in DOMAIN decls[i].fields } :
            i \in DOMAIN decls }

\* what writeGoTypes leaves in its buffer; "panic" when it never returned;
\* needs are the flags at its last line, where genDateTypes writes dates
GoTypes(status, simple, types, xmltypes, needs) ==
  [ status |-> status, simple |-> simple, types |-> types,
    xmltypes |-> xmltypes, needs |-> needs,
    dates |-> genDateTypes(needs, DateTypeNames) ]

typesWritten(ge, s, decls, xmltypes) ==
  GoTypes("ok", s, decls, xmltypes,
          ge.needsDateTypes
            \cup dateFlags(ge, simpleConversions(ge) \cup fieldTypes(decls)))

writeGoTypesOf(ge, s, t, o) ==
  IF t.ok /\ o.ok THEN typesWritten(ge, s, t.decls \o o.decls, t.xmltypes)
  ELSE GoTypes("panic", << >>, << >>, << >>, {})

\* the encoder as writeGoTypes leaves it: genValidator needs "reflect"
typesEncoder(ge, t) ==
  [ ge EXCEPT !.needsStdPkg =
                IF \E i \in DOMAIN t.simple : t.simple[i].validator # << >>
                THEN @ \cup { "reflect" } ELSE @,
              !.needsDateTypes = t.needs ]

\* goEncoder.writeGoTypes: simple types in sorted order, complex types in
\* sorted order, each followed by its SetXMLType, then the operation
\* wrappers in sorted order
writeGoTypes(ge, d) ==
  writeGoTypesOf(ge, genSimpleTypes(ge, sortedSimpleTypes(ge)),
                 genGoStructs(ge, d, sortedComplexTypes(ge)),
                 genGoOpStructs(ge, sortedOperations(ge)))

(* ------------------------------------------------------------------ *)
(* Parameters                                                          *)
(* ------------------------------------------------------------------ *)

Parameter(code, dataType, xmlToken) ==
  [ code |-> code, dataType |-> dataType, xmlToken |-> xmlToken ]

isGoKeyword ==
  { "break", "case", "chan", "const", "continue", "default", "else",
    "defer", "fallthrough", "for", "func", "go", "goto", "if", "import",
    "interface", "map", "package", "range", "return", "select", "struct",
    "switch", "type", "var" }

\* the type, the token and the element name genParams derives for one
\* part: of its type attribute, else of its element attribute
PartOf(t, token, elName) == [ t |-> t, token |-> token, elName |-> elName ]

\* "token = t": the token is the text of the Go type
TypedPart(t, elName) == PartOf(t, t, elName)

PartType(ge, part) ==
  IF part.Type # NoQN
  THEN TypedPart(wsdl2goType(ge, part.Type), trimns(part.Type))
  ELSE IF part.Element # NoQN
  THEN PartOf(IF trimns(part.Element) \in DOMAIN ge.elements
              THEN wsdl2goType(ge,
                     QN("", trimns(ge.elements[trimns(part.Element)].Type)))
              ELSE wsdl2goType(ge, part.Element),
              GoType(FALSE, trimns(part.Element)), trimns(part.Element))
  ELSE PartOf(GoType(FALSE, ""), GoType(FALSE, ""), "")

PartParameter(name, pt) == Parameter(name, pt.t, pt.token)

\* goEncoder.genParams: the parameters of a message
RECURSIVE genParams(_, _)
genParams(ge, parts) ==
  IF parts = << >> THEN << >>
  ELSE << PartParameter(Head(parts).Name, PartType(ge, Head(parts))) >>
         \o genParams(ge, Tail(parts))

\* ge.needsTag[strings.TrimPrefix(t, "*")] = elName
recordTag(needsTag, pt) == Put(needsTag, pt.t.name, pt.elName)

\* what genParams records when needsTag is set: the tag of each part's type
RECURSIVE recordTags(_, _, _)
recordTags(ge, needsTag, parts) ==
  IF parts = << >> THEN needsTag
  ELSE recordTags(ge, recordTag(needsTag, PartType(ge, Head(parts))),
                  Tail(parts))

\* an error of the generator: its kind and the two names its text quotes
MsgErr(kind, op, msg) == [ kind |-> kind, op |-> op, msg |-> msg ]
NoErr == MsgErr("", "", NoQN)

\* what inputParams returns, with the encoder as genParams left it
Params(err, params, ge) == [ err |-> err, params |-> params, ge |-> ge ]

\* the types of the parameters params
paramTypes(params) == { params[i].dataType : i \in DOMAIN params }

\* genParams(req, true) gave params: what the encoder records
inputParamsWith(ge, parts, params) ==
  Params(NoErr, params,
         [ ge EXCEPT
             !.needsTag = recordTags(ge, @, parts),
             !.needsStdPkg = IF Len(parts) > 0
                             THEN @ \cup {"encoding/xml"} ELSE @,
             !.needsDateTypes = @ \cup dateFlags(ge, paramTypes(params)) ])

genInputParams(ge, parts) == inputParamsWith(ge, parts, genParams(ge, parts))

inputParamsOf(ge, op, im) ==
  IF im \notin DOMAIN ge.messages
  THEN Params(MsgErr("input message", op.Name, QN("", im)), << >>, ge)
  ELSE genInputParams(ge, ge.messages[im].Parts)

\* goEncoder.inputParams
inputParams(ge, op) ==
  IF op.Input = << >> THEN Params(NoErr, << >>, ge)
  ELSE inputParamsOf(ge, op, trimns(op.Input[1].Message))

ErrParam == Parameter("err", GoType(FALSE, "error"), GoType(FALSE, ""))

\* genParams(resp, false) gave params: the error comes last
outputParamsWith(ge, params) ==
  Params(NoErr, params \o << ErrParam >>,
         [ ge EXCEPT !.needsDateTypes = @ \cup dateFlags(ge, paramTypes(params)) ])

outputParamsOf(ge, op, om) ==
  IF om \notin DOMAIN ge.messages
  THEN Params(MsgErr("output message", op.Name, QN("", om)), << >>, ge)
  ELSE outputParamsWith(ge, genParams(ge, ge.messages[om].Parts))

\* goEncoder.outputParams: the parts of the output message, then the error
outputParams(ge, op) ==
  IF op.Output = << >> THEN Params(NoErr, << ErrParam >>, ge)
  ELSE outputParamsOf(ge, op, trimns(op.Output[1].Message))

(* ------------------------------------------------------------------ *)
(* Functions                                                           *)
(* ------------------------------------------------------------------ *)

XMLTag(pfx, local, suffix) == [ pfx |-> pfx, local |-> local, suffix |-> suffix ]

\* what writeSOAPFunc hands to its template
SoapFuncData(rtt, action, name, opName, inType, names, respName, outType, in, out, rpc) ==
  [ RoundTripType |-> rtt, Action |-> action, Name |-> name,
    OpName |-> opName, OpInputDataType |-> inType, InputNames |-> names,
    OpResponseName |-> respName, OpResponseDataType |-> outType,
    Input |-> in, Output |-> out, RPCStyle |-> rpc ]

\* a member of the anonymous request / response struct of a template:
\* "{{if .RPCStyle}}M{{end}} {{.Type}} `xml:"{{.Tag}}"`", written only
\* "{{if .Type}}"
TemplateMember(dataType, rpc, tag) ==
  IF dataType = "" THEN << >>
  ELSE << [ member |-> IF rpc THEN "M" ELSE "", type |-> dataType, tag |-> tag ] >>

FuncText(kind, name, calls, req, names, resp, in, out) ==
  [ kind |-> kind, name |-> name, calls |-> calls, request |-> req,
    names |-> names, response |-> resp, in |-> in, out |-> out ]

\* soapActionFuncT: p.cli.{{.RoundTripType}}("{{.Action}}", a, &g)
soapActionFuncT(x) ==
  FuncText("method", x.Name,
           << [ fn |-> x.RoundTripType, action |-> x.Action ] >>,
           TemplateMember(x.OpInputDataType, x.RPCStyle, x.OpName),
           IF x.OpInputDataType = "" THEN << >> ELSE x.InputNames,
           TemplateMember(x.OpResponseDataType, x.RPCStyle, x.OpResponseName),
           x.Input, x.Output)

\* soapFuncT: p.cli.RoundTripWithAction("{{.Name}}", a, &g)
soapFuncT(x) ==
  FuncText("method", x.Name,
           << [ fn |-> "RoundTripWithAction", action |-> x.Name ] >>,
           TemplateMember(x.OpInputDataType, x.RPCStyle, x.OpName),
           IF x.OpInputDataType = "" THEN << >> ELSE x.InputNames,
           TemplateMember(x.OpResponseDataType, x.RPCStyle, x.OpResponseName),
           x.Input, x.Output)

\* IsRPCStyle with rpc as the style of a binding that declares none
IsRPCStyleByDefault(binding) ==
  IF binding.BindingType # << >> THEN binding.BindingType[1].Style = "rpc"
  ELSE TRUE

\* the style test of writeSOAPFunc
IsRPCStyle(binding) ==
  IF binding.BindingType # << >> THEN binding.BindingType[1].Style = "rpc"
  ELSE FALSE

\* SoapAction with the SOAP 1.1 action tried first
SoapAction11First(bindingOp) ==
  IF bindingOp.Operation11.Action = ""
  THEN [ fn |-> "RoundTripSoap12", action |-> bindingOp.Operation.Action ]
  ELSE [ fn |-> "RoundTripWithAction", action |-> bindingOp.Operation11.Action ]

\* the action chosen by writeSOAPFunc: the SOAP 1.2 action, and only when
\* it is empty the SOAP 1.1 action
SoapAction(bindingOp) ==
  IF bindingOp.Operation.Action = ""
  THEN [ fn |-> "RoundTripWithAction", action |-> bindingOp.Operation11.Action ]
  ELSE [ fn |-> "RoundTripSoap12", action |-> bindingOp.Operation.Action ]

\* a name left as it is, keyword or not
LeaveKeyword(code) == [ masked |-> FALSE, name |-> code ]

\* code(): "name type" pairs, a keyword name masked by maskKeywordUsage
maskKeywordUsage(code) ==
  IF code \in isGoKeyword THEN [ masked |-> TRUE, name |-> code ]
  ELSE [ masked |-> FALSE, name |-> code ]

RECURSIVE code(_)
code(list) ==
  IF list = << >> THEN << >>
  ELSE << [ name |-> maskKeywordUsage(Head(list).code),
            type |-> Head(list).dataType ] >> \o code(Tail(list))

\* codeParams(): the types alone
RECURSIVE codeParams(_)
codeParams(list) ==
  IF list = << >> THEN << >>
  ELSE << Head(list).dataType >> \o codeParams(Tail(list))

\* inputNames: the values of the request's composite literal, each
\* parameter by its masked name, behind "&" unless its type is a pointer
RECURSIVE InputNames(_)
InputNames(list) ==
  IF list = << >> THEN << >>
  ELSE << [ name |-> maskKeywordUsage(Head(list).code),
            addr |-> ~Head(list).dataType.ptr ] >> \o InputNames(Tail(list))

\* what writeSOAPFunc did: emitted = FALSE when the operation has no
\* binding entry, panic when it never returned
SoapFunc(emitted, panic, fn) == [ emitted |-> emitted, panic |-> panic, fn |-> fn ]

\* namespacedOpName: the operation's name under the namespace prefix of
\* the input message's name
NamespacedOpName(op, msg) == XMLTag(msg.pfx, op.Name, "")

\* operationInputDataType; the else branch of the output test assigns the
\* input type as well
OpInputDataType(ge, op, in, out, rpcStyle) ==
  IF ~(Len(out) > 0 /\ op.Output # << >>) /\ rpcStyle THEN "struct{}"
  ELSE IF Len(in) > 0 /\ op.Input # << >>
  THEN sanitizedOperationsType(ge.messages[trimns(op.Input[1].Message)].Name)
  ELSE IF rpcStyle THEN "struct{}" ELSE ""

\* operationOutputDataType
OpOutputDataType(ge, op, out) ==
  IF Len(out) > 0 /\ op.Output # << >>
  THEN sanitizedOperationsType(ge.messages[trimns(op.Output[1].Message)].Name)
  ELSE ""

\* the template writeSOAPFunc executes: soapActionFuncT when there is an
\* action, soapFuncT otherwise
ExecuteTemplate(data) ==
  IF data.Action # "" THEN soapActionFuncT(data) ELSE soapFuncT(data)

SoapFuncDataOf(ge, op, in, out, act, rpcStyle) ==
  SoapFuncData(act.fn, act.action, goSymbol(op.Name),
               NamespacedOpName(op, ge.funcs[op.Name].Input[1].Message),
               OpInputDataType(ge, op, in, out, rpcStyle),
               InputNames(in),
               XMLTag("", op.Name, "Response"),
               OpOutputDataType(ge, op, out),
               code(in), codeParams(out), rpcStyle)

\* goEncoder.writeSOAPFunc; it never returns when ge.funcs[op.Name].Input
\* is nil or the port type's name is empty
writeSOAPFunc(ge, d, op, in, out) ==
  IF op.Name \notin DOMAIN ge.soapOps THEN SoapFunc(FALSE, FALSE, << >>)
  ELSE IF ge.funcs[op.Name].Input = << >> \/ d.PortType.Name = ""
  THEN SoapFunc(FALSE, TRUE, << >>)
  ELSE SoapFunc(TRUE, FALSE,
                << ExecuteTemplate(
                     SoapFuncDataOf(ge, op, in, out,
                                    SoapAction(ge.soapOps[op.Name]),
                                    IsRPCStyle(d.Binding))) >>)


\* a default that is nil for every type
NilDefault(t) == "nil"

\* goEncoder.wsdl2goDefault
wsdl2goDefault(t) ==
  CASE t.name = "error" -> "errors.New(\"not implemented\")"
    [] t.name = "bool" -> "false"
    [] t.name \in { "uint", "int", "int64", "float64" } -> "0"
    [] t.name = "string" -> "\"\""
    [] t.name \in { "[]byte", "interface{}" } -> "nil"
    [] OTHER -> "&T{}"

RECURSIVE defaults(_)
defaults(list) ==
  IF list = << >> THEN << >>
  ELSE << wsdl2goDefault(Head(list).dataType) >> \o defaults(Tail(list))

\* name + "Func", over the operation names of the model
AppendFunc(name) ==
  CASE name = "Ping" -> "PingFunc"
    [] name = "PingFunc" -> "PingFuncFunc"
    [] name = "PingFuncFunc" -> "PingFuncFuncFunc"
    [] name = "Echo" -> "EchoFunc"
    [] OTHER -> "Func"

\* goEncoder.fixFuncNameConflicts: "Func" is appended as long as the name
\* is a key of the simple type cache or of the complex type cache
RECURSIVE fixFuncNameConflicts(_, _)
fixFuncNameConflicts(ge, name) ==
  IF name \in DOMAIN ge.stypes \/ name \in DOMAIN ge.ctypes
  THEN fixFuncNameConflicts(ge, AppendFunc(name)) ELSE name

\* a stage's result: "ok", "err" with the error, or "panic"; the encoder as
\* the stage left it and what it wrote to its buffer
Stage(status, err, ge, out) ==
  [ status |-> status, err |-> err, ge |-> ge, out |-> out ]

\* what was written before the rest r of a loop ran
ConsStage(out, r) == Stage(r.status, r.err, r.ge, out \o r.out)

InterfaceFunc(op, in, out) ==
  [ Name |-> goSymbol(op.Name), Input |-> code(in), Output |-> codeParams(out) ]

RECURSIVE interfaceFuncs(_, _)

\* one bound operation of the loop, i and o being its parameters
interfaceFuncsOf(ge, op, names, i, o) ==
  IF i.err # NoErr THEN Stage("err", i.err, ge, << >>)
  ELSE IF o.err # NoErr THEN Stage("err", o.err, i.ge, << >>)
  ELSE ConsStage(<< InterfaceFunc(op, i.params, o.params) >>,
                 interfaceFuncs(o.ge, Tail(names)))

interfaceFuncsIn(ge, op, names, i) ==
  interfaceFuncsOf(ge, op, names, i, outputParams(i.ge, op))

interfaceFuncsOp(ge, op, names) ==
  IF op.Name \notin DOMAIN ge.soapOps THEN interfaceFuncs(ge, Tail(names))
  ELSE interfaceFuncsIn(ge, op, names, inputParams(ge, op))

\* the loop of writeInterfaceFuncs over ge.funcnames
interfaceFuncs(ge, names) ==
  IF names = << >> THEN Stage("ok", NoErr, ge, << >>)
  ELSE interfaceFuncsOp(ge, ge.funcs[Head(names)], names)

\* the template of writeInterfaceFuncs; the name of the private type
\* slices the port type's name
interfaceType(d, r) ==
  IF r.status # "ok" THEN r
  ELSE IF d.PortType.Name = "" THEN Stage("panic", NoErr, r.ge, << >>)
  ELSE Stage("ok", NoErr, r.ge,
             << [ Name |-> goSymbol(d.PortType.Name), Funcs |-> r.out ] >>)

\* goEncoder.writeInterfaceFuncs: the interface of the bound operations
writeInterfaceFuncs(ge, d) == interfaceType(d, interfaceFuncs(ge, ge.funcnames))

\* goEncoder.writePortType: the private struct implementing the interface
writePortType(ge, d) ==
  IF Cardinality(DOMAIN ge.funcs) = 0 THEN Stage("ok", NoErr, ge, << >>)
  ELSE IF d.PortType.Name = "" THEN Stage("panic", NoErr, ge, << >>)
  ELSE Stage("ok", NoErr, ge, << [ Interface |-> goSymbol(d.PortType.Name) ] >>)

\* the stub written for an operation without binding entry
StubFunc(ge, op, in, out) ==
  [ kind |-> "stub", name |-> fixFuncNameConflicts(ge, goSymbol(op.Name)),
    calls |-> << >>, request |-> << >>, response |-> << >>,
    in |-> << "ctx context.Context" >> \o code(in),
    out |-> codeParams(out), ret |-> defaults(out) ]

RECURSIVE goFuncs(_, _, _)

\* the function of one operation written, s being what writeSOAPFunc did
goFuncsEmit(ge, d, op, names, i, o, s) ==
  IF s.panic THEN Stage("panic", NoErr, i.ge, << >>)
  ELSE IF s.emitted
  THEN ConsStage(s.fn,
                 goFuncs([ o.ge EXCEPT !.needsExtPkg = @ \cup {"soap"} ],
                         d, Tail(names)))
  ELSE ConsStage(<< StubFunc(ge, op, i.params, o.params) >>,
                 goFuncs([ o.ge EXCEPT
                             !.needsStdPkg = @ \cup {"errors", "context"} ],
                         d, Tail(names)))

goFuncsOf(ge, d, op, names, i, o) ==
  IF i.err # NoErr THEN Stage("err", i.err, ge, << >>)
  ELSE IF o.err # NoErr THEN Stage("err", o.err, i.ge, << >>)
  ELSE goFuncsEmit(ge, d, op, names, i, o,
                   writeSOAPFunc(i.ge, d, op, i.params, o.params))

goFuncsIn(ge, d, op, names, i) ==
  goFuncsOf(ge, d, op, names, i, outputParams(i.ge, op))

\* the loop of writeGoFuncs over ge.funcnames
goFuncs(ge, d, names) ==
  IF names = << >> THEN Stage("ok", NoErr, ge, << >>)
  ELSE goFuncsIn(ge, d, ge.funcs[Head(names)], names,
                 inputParams(ge, ge.funcs[Head(names)]))

BindingErr(binding) == MsgErr("binding", binding.Name, binding.Type)

\* goEncoder.writeGoFuncs: the binding must name the port type, then one
\* function per operation in the order of ge.funcnames
writeGoFuncs(ge, d) ==
  IF d.Binding.Type # NoQN /\ trimns(d.Binding.Type) # d.PortType.Name
  THEN Stage("err", BindingErr(d.Binding), ge, << >>)
  ELSE IF Cardinality(DOMAIN ge.funcs) = 0 THEN Stage("ok", NoErr, ge, << >>)
  ELSE goFuncs(ge, d, ge.funcnames)


(* ------------------------------------------------------------------ *)
(* Documents and import resolution                                     *)
(* ------------------------------------------------------------------ *)

Loc(scheme, path) == [ scheme |-> scheme, path |-> path ]
NoLoc == Loc("", "")

Schema(tns, namespaces, imports, includes, stypes, ctypes, elements) ==
  [ TargetNamespace |-> tns, Namespaces |-> namespaces, Imports |-> imports,
    Includes |-> includes, SimpleTypes |-> stypes, ComplexTypes |-> ctypes,
    Elements |-> elements ]

EmptySchema == Schema("", {}, << >>, << >>, << >>, << >>, << >>)

Definitions(name, tns, namespaces, imports, schema, messages, portType, binding) ==
  [ Name |-> name, TargetNamespace |-> tns, Namespaces |-> namespaces,
    Imports |-> imports, Schema |-> schema, Messages |-> messages,
    PortType |-> portType, Binding |-> binding ]

\* a document as the transport serves it: its root element and what the
\* decoder makes of it
DefinitionsDoc(def) == [ root |-> "definitions", def |-> << def >>, schema |-> << >> ]
SchemaDoc(sch) == [ root |-> "schema", def |-> << >>, schema |-> << sch >> ]
BrokenDoc == [ root |-> "", def |-> << >>, schema |-> << >> ]

\* the import state: the definitions being merged into, the locations
\* recorded in ge.importedSchemas, every fetch made, and the first error
ImportState(d, imported, log, err) ==
  [ d |-> d, imported |-> imported, log |-> log, err |-> err ]

\* the location importRemote opens: an http(s) URL as it is, anything else
\* as the local file u.Path
Opened(loc) ==
  IF loc.scheme \in { "http", "https" } THEN loc ELSE Loc("", loc.path)

\* goEncoder.importRemote, up to the decoder: got is the document read, if
\* any. Only the http branch records the location
importRemote(docs, st, loc) ==
  IF loc \in st.imported THEN [ st |-> st, got |-> << >> ]
  ELSE IF Opened(loc) \notin DOMAIN docs
  THEN [ st |-> [ st EXCEPT !.err = "open" ], got |-> << >> ]
  ELSE [ st |-> [ st EXCEPT
                    !.imported = IF loc.scheme \in { "http", "https" }
                                 THEN @ \cup { loc } ELSE @,
                    !.log = Append(@, loc) ],
         got |-> << docs[Opened(loc)] >> ]

\* the TargetNamespace loops of unionSchemasData
RECURSIVE setTargetNamespace(_, _)
setTargetNamespace(types, tns) ==
  IF types = << >> THEN << >>
  ELSE << [ Head(types) EXCEPT !.TargetNamespace = tns ] >>
         \o setTargetNamespace(Tail(types), tns)

\* goEncoder.unionSchemasData(d, s); writing a namespace into the nil map
\* of a document that declared none faults
unionSchemasData(d, s) ==
  [ d EXCEPT
      !.Namespaces = IF s.Namespaces = {} THEN @
                     ELSE IF @ = << >> THEN << >>
                     ELSE << @[1] \cup s.Namespaces >>,
      !.Schema.ComplexTypes =
          @ \o setTargetNamespace(s.ComplexTypes, s.TargetNamespace),
      !.Schema.SimpleTypes =
          @ \o setTargetNamespace(s.SimpleTypes, s.TargetNamespace),
      !.Schema.Elements = @ \o s.Elements ]

unionFaults(d, s) == s.Namespaces # {} /\ d.Namespaces = << >>

\* unionSchemasData(d, &d.Schema), the first statement of encode: s is the
\* schema of d itself, so the types it marks are the types of d
unionOwnSchema(d) ==
  LET marked == [ d EXCEPT
        !.Schema.ComplexTypes = setTargetNamespace(@, d.Schema.TargetNamespace),
        !.Schema.SimpleTypes = setTargetNamespace(@, d.Schema.TargetNamespace) ]
  IN  [ marked EXCEPT
        !.Namespaces = IF d.Schema.Namespaces = {} \/ @ = << >> THEN @
                       ELSE << @[1] \cup d.Schema.Namespaces >>,
        !.Schema.ComplexTypes = @ \o marked.Schema.ComplexTypes,
        !.Schema.SimpleTypes = @ \o marked.Schema.SimpleTypes,
        !.Schema.Elements = @ \o marked.Schema.Elements ]

\* xml.Decode into the definitions already held (importRoot passes &d):
\* attributes present overwrite, child lists are appended
mergeDefinitions(d, w) ==
  [ d EXCEPT
      !.Name = IF w.Name # "" THEN w.Name ELSE @,
      !.TargetNamespace = IF w.TargetNamespace # "" THEN w.TargetNamespace ELSE @,
      !.Namespaces = IF w.Namespaces = << >> THEN @
                     ELSE IF @ = << >> THEN w.Namespaces
                     ELSE << @[1] \cup w.Namespaces[1] >>,
      !.Imports = @ \o w.Imports,
      !.Schema = Schema(
          IF w.Schema.TargetNamespace # "" THEN w.Schema.TargetNamespace
          ELSE d.Schema.TargetNamespace,
          d.Schema.Namespaces \cup w.Schema.Namespaces,
          d.Schema.Imports \o w.Schema.Imports,
          d.Schema.Includes \o w.Schema.Includes,
          d.Schema.SimpleTypes \o w.Schema.SimpleTypes,
          d.Schema.ComplexTypes \o w.Schema.ComplexTypes,
          d.Schema.Elements \o w.Schema.Elements),
      !.Messages = @ \o w.Messages,
      !.PortType = [ Name |-> IF w.PortType.Name # "" THEN w.PortType.Name
                              ELSE d.PortType.Name,
                     Operations |-> d.PortType.Operations \o w.PortType.Operations ],
      !.Binding = [ Name |-> IF w.Binding.Name # "" THEN w.Binding.Name
                             ELSE d.Binding.Name,
                    Type |-> IF w.Binding.Type # NoQN THEN w.Binding.Type
                             ELSE d.Binding.Type,
                    BindingType |-> IF w.Binding.BindingType # << >>
                                    THEN w.Binding.BindingType
                                    ELSE d.Binding.BindingType,
                    Operations |-> d.Binding.Operations \o w.Binding.Operations ] ]

\* the rest of one turn of importRoot's loop, f being what importRemote
\* returned: the document is decoded into the definitions already held
importRootDecode(st, got) ==
  IF got.root # "definitions" THEN [ st EXCEPT !.err = "decode" ]
  ELSE [ st EXCEPT !.d = mergeDefinitions(@, got.def[1]) ]

\* goEncoder.importRoot: the loop over the imports the root document had
\* when the loop began
RECURSIVE importRoot(_, _, _)

importRootFetched(docs, f, imports) ==
  IF f.st.err # "" THEN f.st
  ELSE IF f.got = << >> THEN importRoot(docs, f.st, Tail(imports))
  ELSE importRoot(docs, importRootDecode(f.st, f.got[1]), Tail(imports))

importRoot(docs, st, imports) ==
  IF imports = << >> \/ st.err # "" THEN st
  ELSE IF Head(imports).Location = NoLoc THEN importRoot(docs, st, Tail(imports))
  ELSE importRootFetched(docs, importRemote(docs, st, Head(imports).Location),
                         imports)

\* a schema imported: the state after it and the schema decoded
Imported(st, sch) == [ st |-> st, sch |-> sch ]

\* unionSchemasData(d, schema) after importRemote returned f: the schema is
\* empty when the location was already imported
unionFetched(f) ==
  IF f.st.err # "" THEN Imported(f.st, EmptySchema)
  ELSE IF f.got = << >>
  THEN Imported([ f.st EXCEPT !.d = unionSchemasData(@, EmptySchema) ],
                EmptySchema)
  ELSE IF f.got[1].root # "schema"
  THEN Imported([ f.st EXCEPT !.err = "decode" ], EmptySchema)
  ELSE IF unionFaults(f.st.d, f.got[1].schema[1])
  THEN Imported([ f.st EXCEPT !.err = "panic" ], EmptySchema)
  ELSE Imported([ f.st EXCEPT !.d = unionSchemasData(@, f.got[1].schema[1]) ],
                f.got[1].schema[1])

\* importRemote(loc, schema) followed by unionSchemasData(d, schema)
importOneSchema(docs, st, loc) == unionFetched(importRemote(docs, st, loc))

\* the two inner loops of importSchema. Each rebinds the variable schema, so
\* last is the schema the variable holds when the loop ends
RECURSIVE importItems(_, _, _, _)

importItemsAfter(docs, r, items) == importItems(docs, r.st, Tail(items), r.sch)

importItems(docs, st, items, last) ==
  IF items = << >> \/ st.err # "" THEN Imported(st, last)
  ELSE importItemsAfter(docs, importOneSchema(docs, st, Head(items).Location),
                        items)

\* the loop over the includes of the schema b.sch
importIncludes(docs, b) ==
  IF b.st.err # "" THEN b.st
  ELSE importItems(docs, b.st, b.sch.Includes, b.sch).st

\* the loop over the imports of the schema a.sch, then the includes of the
\* schema the variable holds by then
importImports(docs, a) ==
  IF a.st.err # "" THEN a.st
  ELSE importIncludes(docs, importItems(docs, a.st, a.sch.Imports, a.sch))

\* the body of the outer loop of importSchema for one import of the root
\* schema
importSchemaEntry(docs, st, imp) ==
  IF imp.Location = NoLoc THEN st
  ELSE importImports(docs, importOneSchema(docs, st, imp.Location))

\* goEncoder.importSchema
RECURSIVE importSchema(_, _, _)
importSchema(docs, st, imports) ==
  IF imports = << >> \/ st.err # "" THEN st
  ELSE importSchema(docs, importSchemaEntry(docs, st, Head(imports)), Tail(imports))

importSchemaOf(docs, r) ==
  IF r.err # "" THEN r ELSE importSchema(docs, r, r.d.Schema.Imports)

\* goEncoder.importParts
importParts(docs, st) == importSchemaOf(docs, importRoot(docs, st, st.d.Imports))

(* ------------------------------------------------------------------ *)
(* The encoder                                                         *)
(* ------------------------------------------------------------------ *)

\* NewEncoder: every cache empty
NewEncoder ==
  [ stypes |-> << >>, ctypes |-> << >>, elements |-> << >>,
    funcs |-> << >>, funcnames |-> << >>, messages |-> << >>,
    soapOps |-> << >>, needsTag |-> << >>, needsStdPkg |-> {},
    needsExtPkg |-> {}, needsDateTypes |-> {}, localNamespace |-> "" ]

\* goEncoder.cacheFuncs: operations by name, and their names sorted
cacheFuncs(ge, d) ==
  LET funcs == cacheNamed(ge.funcs, d.PortType.Operations)
  IN  [ ge EXCEPT !.funcs = funcs, !.funcnames = sortStrings(DOMAIN funcs) ]

\* goEncoder.cacheMessages
cacheMessages(ge, d) == [ ge EXCEPT !.messages = cacheNamed(@, d.Messages) ]

\* goEncoder.cacheSOAPOperations
cacheSOAPOperations(ge, d) ==
  [ ge EXCEPT !.soapOps = cacheNamed(@, d.Binding.Operations) ]

\* the writers encode runs, by whether any SOAP operation is cached
Writers(ge) ==
  IF Cardinality(DOMAIN ge.soapOps) > 0
  THEN << "writeInterfaceFuncs", "writeGoTypes", "writePortType", "writeGoFuncs" >>
  ELSE << "writeGoFuncs", "writeGoTypes" >>

NoBuffer ==
  [ iface |-> << >>, dates |-> << >>, simple |-> << >>, types |-> << >>,
    xmltypes |-> << >>, port |-> << >>,
    funcs |-> << >> ]

\* BindingPackageName.String, over the binding names of the model
BindingPackageName(binding) ==
  CASE binding.Name = ""    -> "internal"
    [] binding.Name = "PTB" -> "ptb"
    [] OTHER                -> binding.Name

\* what encode writes to w after the writers: package clause, imports in
\* the order the two range loops visit them, Namespace, then the buffer
GoText(pkg, std, ext, ns, b) ==
  [ package |-> pkg, std |-> std, ext |-> ext, namespace |-> ns, body |-> b ]

\* gofmt keeps the text and sorts each block of import lines
gofmt(text) ==
  [ text EXCEPT !.std = sortStrings({ text.std[i] : i \in DOMAIN text.std }) ]

\* the caches after cacheTypes returned c
cachedTypes(ge, c) ==
  [ ge EXCEPT !.stypes = c.stypes, !.ctypes = c.ctypes, !.elements = c.elements ]

\* the four cache calls of encode, the last loop of cacheTypes visiting the
\* complex types in the given order
cacheAll(ge, d, order) ==
  cacheSOAPOperations(
    cacheMessages(
      cacheFuncs(cachedTypes(ge, cacheTypes(d.Schema, order)), d), d), d)

\* one writer of encode's list ff; writeGoTypes returns no error
runWriter(ge, d, f) ==
  CASE f = "writeInterfaceFuncs" -> writeInterfaceFuncs(ge, d)
    [] f = "writePortType"       -> writePortType(ge, d)
    [] f = "writeGoFuncs"        -> writeGoFuncs(ge, d)
    [] OTHER                     -> Stage("ok", NoErr, ge, << >>)

\* the buffer after the writer f returned s, or writeGoTypes returned t
BufferAfter(b, f, s) ==
  CASE f = "writeInterfaceFuncs" -> [ b EXCEPT !.iface = s.out ]
    [] f = "writePortType"       -> [ b EXCEPT !.port = s.out ]
    [] f = "writeGoFuncs"        -> [ b EXCEPT !.funcs = s.out ]
    [] OTHER                     -> b

BufferWithTypes(b, t) ==
  [ b EXCEPT !.dates = t.dates, !.simple = t.simple, !.types = t.types,
             !.xmltypes = t.xmltypes ]

\* what the loop of encode over ff leaves: the status of the last writer
\* run, the encoder and the buffer
Encoded(status, err, ge, b) ==
  [ status |-> status, err |-> err, ge |-> ge, b |-> b ]

RECURSIVE runWriters(_, _, _, _)

runWritersAfter(d, ff, b, s) ==
  IF s.status # "ok" THEN Encoded(s.status, s.err, s.ge, b)
  ELSE runWriters(s.ge, d, Tail(ff), BufferAfter(b, Head(ff), s))

runWritersTypes(ge, d, ff, b, t) ==
  IF t.status # "ok" THEN Encoded(t.status, NoErr, ge, b)
  ELSE runWriters(typesEncoder(ge, t), d, Tail(ff), BufferWithTypes(b, t))

\* the loop "for _, f := range ff" of encode
runWriters(ge, d, ff, b) ==
  IF ff = << >> THEN Encoded("ok", NoErr, ge, b)
  ELSE IF Head(ff) = "writeGoTypes"
  THEN runWritersTypes(ge, d, ff, b, writeGoTypes(ge, d))
  ELSE runWritersAfter(d, ff, b, runWriter(ge, d, Head(ff)))

\* some order in which the last loop of cacheTypes may visit the types
SomeOrder(schema) == sortStrings(DOMAIN cacheTypes(schema, << >>).ctypes)

\* what a whole run of Encode gives: how it ended and the text the writer
\* received, if any
Output(how, text) == [ how |-> how, text |-> text ]

encodeText(binding, d, r) ==
  IF r.status # "ok" THEN Output(r.status, << >>)
  ELSE Output("ok",
              << gofmt(GoText(BindingPackageName(binding),
                              sortStrings(r.ge.needsStdPkg), r.ge.needsExtPkg,
                              d.TargetNamespace, r.b)) >>)

encodeCached(binding, d, ge) ==
  encodeText(binding, d, runWriters(ge, d, Writers(ge), NoBuffer))

encodeImported(binding, st) ==
  IF st.err = "panic" THEN Output("panic", << >>)
  ELSE IF st.err # "" THEN Output("err", << >>)
  ELSE encodeCached(binding, st.d,
                    cacheAll(NewEncoder, st.d, SomeOrder(st.d.Schema)))

\* Encode of the definitions d0 with the documents docs in reach, when the
\* generated text parses and gofmt succeeds
Encode(docs, d0) ==
  IF unionFaults(d0, d0.Schema) THEN Output("panic", << >>)
  ELSE encodeImported(d0.Binding,
                      importParts(docs, ImportState(unionOwnSchema(d0), {},
                                                    << >>, "")))

(* ------------------------------------------------------------------ *)
(* A run of the program                                                *)
(* ------------------------------------------------------------------ *)

VARIABLES
  world,    \* the input: documents by location, the root, the destination
  pc,       \* where main / Encode stands
  run,      \* the encoder: definitions, caches, import state, buffers
  w,        \* what the encoder's writer has received
  file,     \* the destination file
  exit      \* how the process ended

vars == << world, pc, run, w, file, exit >>

NewRun ==
  [ d |-> << >>, ge |-> NewEncoder, imported |-> {}, log |-> << >>,
    todo |-> << >>, ff |-> << >>, b |-> NoBuffer, text |-> << >>,
    err |-> NoErr, order |-> << >> ]

\* the process ends: log.Fatal after an error, or a runtime panic
End(how, err) ==
  /\ pc' = "exit"
  /\ exit' = [ how |-> how, err |-> err ]

ImportErr(what) == MsgErr("wsdl import", what, NoQN)

\* main: the destination named by -o is opened, created and truncated,
\* before anything is read
OpenDst ==
  /\ pc = "main"
  /\ pc' = "codegen"
  /\ file' = IF world.dst = "file"
             THEN [ exists |-> TRUE, content |-> "empty" ]
             ELSE file
  /\ UNCHANGED << world, run, w, exit >>

\* codegen: wsdl.Unmarshal of the source, NewEncoder
Unmarshal ==
  /\ pc = "codegen"
  /\ IF world.docs[world.root].root # "definitions"
     THEN /\ End("error", MsgErr("unmarshal", "", NoQN))
          /\ UNCHANGED run
     ELSE /\ pc' = "encode"
          /\ run' = [ run EXCEPT !.d = world.docs[world.root].def,
                                 !.ge.localNamespace = world.localNamespace ]
          /\ UNCHANGED exit
  /\ UNCHANGED << world, w, file >>

\* encode: unionSchemasData(d, &d.Schema)
EncodeUnion ==
  /\ pc = "encode"
  /\ IF unionFaults(run.d[1], run.d[1].Schema)
     THEN /\ End("panic", NoErr)
          /\ UNCHANGED run
     ELSE /\ pc' = "importRoot"
          /\ run' = [ run EXCEPT !.d = << unionOwnSchema(@[1]) >> ]
          /\ UNCHANGED exit
  /\ UNCHANGED << world, w, file >>

ImportStateOf(r) == ImportState(r.d[1], r.imported, r.log, "")

AfterImport(r, st) ==
  [ r EXCEPT !.d = << st.d >>, !.imported = st.imported, !.log = st.log ]

ImportEnd(st) ==
  IF st.err = "panic" THEN End("panic", NoErr)
  ELSE End("error", ImportErr(st.err))

\* importParts, first half: importRoot
ImportRoot ==
  /\ pc = "importRoot"
  /\ \E st \in { importRoot(world.docs, ImportStateOf(run), run.d[1].Imports) } :
         IF st.err # ""
         THEN /\ ImportEnd(st)
              /\ run' = AfterImport(run, st)
         ELSE /\ pc' = "importSchema"
              /\ run' = [ AfterImport(run, st) EXCEPT !.todo = st.d.Schema.Imports ]
              /\ UNCHANGED exit
  /\ UNCHANGED << world, w, file >>

\* importSchema: one turn of its outer loop
ImportSchemaEntry ==
  /\ pc = "importSchema"
  /\ run.todo # << >>
  /\ \E st \in { importSchemaEntry(world.docs, ImportStateOf(run),
                                    Head(run.todo)) } :
         IF st.err # ""
         THEN /\ ImportEnd(st)
              /\ run' = AfterImport(run, st)
         ELSE /\ run' = [ AfterImport(run, st) EXCEPT !.todo = Tail(@) ]
              /\ UNCHANGED << pc, exit >>
  /\ UNCHANGED << world, w, file >>

\* cacheTypes, once the imports are merged; the order of the last loop is
\* whatever Go's map iteration gives
CacheTypes ==
  /\ pc = "importSchema"
  /\ run.todo = << >>
  /\ \E order \in Orders(DOMAIN cacheTypes(run.d[1].Schema, << >>).ctypes) :
       \E c \in { cacheTypes(run.d[1].Schema, order) } :
           run' = [ run EXCEPT !.ge = cachedTypes(@, c), !.order = order ]
  /\ pc' = "cacheFuncs"
  /\ UNCHANGED << world, w, file, exit >>

CacheFuncs ==
  /\ pc = "cacheFuncs"
  /\ run' = [ run EXCEPT !.ge = cacheFuncs(@, run.d[1]) ]
  /\ pc' = "cacheMessages"
  /\ UNCHANGED << world, w, file, exit >>

CacheMessages ==
  /\ pc = "cacheMessages"
  /\ run' = [ run EXCEPT !.ge = cacheMessages(@, run.d[1]) ]
  /\ pc' = "cacheSOAPOperations"
  /\ UNCHANGED << world, w, file, exit >>

CacheSOAPOperations ==
  /\ pc = "cacheSOAPOperations"
  /\ \E ge \in { cacheSOAPOperations(run.ge, run.d[1]) } :
         run' = [ run EXCEPT !.ge = ge, !.ff = Writers(ge) ]
  /\ pc' = "write"
  /\ UNCHANGED << world, w, file, exit >>

\* one writer of the list ff has run with result s
Written(s, b) ==
  IF s.status = "ok"
  THEN /\ run' = [ run EXCEPT !.ge = s.ge, !.b = b, !.ff = Tail(@) ]
       /\ UNCHANGED << pc, exit >>
  ELSE /\ run' = [ run EXCEPT !.err = s.err ]
       /\ End(IF s.status = "panic" THEN "panic" ELSE "error", s.err)

WriteInterfaceFuncs ==
  /\ pc = "write" /\ run.ff # << >> /\ Head(run.ff) = "writeInterfaceFuncs"
  /\ \E s \in { writeInterfaceFuncs(run.ge, run.d[1]) } :
         Written(s, [ run.b EXCEPT !.iface = s.out ])
  /\ UNCHANGED << world, w, file >>

WriteGoTypes ==
  /\ pc = "write" /\ run.ff # << >> /\ Head(run.ff) = "writeGoTypes"
  /\ \E t \in { writeGoTypes(run.ge, run.d[1]) } :
         Written(Stage(t.status, NoErr, typesEncoder(run.ge, t), << >>),
                 BufferWithTypes(run.b, t))
  /\ UNCHANGED << world, w, file >>

WritePortType ==
  /\ pc = "write" /\ run.ff # << >> /\ Head(run.ff) = "writePortType"
  /\ \E s \in { writePortType(run.ge, run.d[1]) } :
         Written(s, [ run.b EXCEPT !.port = s.out ])
  /\ UNCHANGED << world, w, file >>

WriteGoFuncs ==
  /\ pc = "write" /\ run.ff # << >> /\ Head(run.ff) = "writeGoFuncs"
  /\ \E s \in { writeGoFuncs(run.ge, run.d[1]) } :
         Written(s, [ run.b EXCEPT !.funcs = s.out ])
  /\ UNCHANGED << world, w, file >>

\* the tail of encode: package clause, imports, Namespace, the buffer
WriteHeader ==
  /\ pc = "write" /\ run.ff = << >>
  /\ \E std \in Orders(run.ge.needsStdPkg) :
       run' = [ run EXCEPT !.text =
                  << GoText(BindingPackageName(world.docs[world.root].def[1].Binding),
                            std, run.ge.needsExtPkg,
                            run.d[1].TargetNamespace, run.b) >> ]
  /\ pc' = "parse"
  /\ UNCHANGED << world, w, file, exit >>

\* Encode: parser.ParseFile on the generated text
ParseFile ==
  /\ pc = "parse"
  /\ IF world.syntaxOK
     THEN /\ pc' = "gofmt"
          /\ UNCHANGED exit
     ELSE End("error", MsgErr("generated bad code", "", NoQN))
  /\ UNCHANGED << world, run, w, file >>

\* Encode: gofmt reads the text and writes to ge.w
Gofmt ==
  /\ pc = "gofmt"
  /\ IF world.gofmtOK
     THEN /\ w' = << gofmt(run.text[1]) >>
          /\ file' = IF world.dst = "file"
                     THEN [ exists |-> TRUE, content |-> "generated" ]
                     ELSE file
          /\ End("ok", NoErr)
     ELSE /\ End("error", MsgErr("gofmt", "", NoQN))
          /\ UNCHANGED << w, file >>
  /\ UNCHANGED << world, run >>


(* ------------------------------------------------------------------ *)
(* Inputs                                                              *)
(* ------------------------------------------------------------------ *)

XS(l) == QN("xs", l)
TNS(l) == QN("tns", l)

MaxOccursValues == { "", "1", "5", "unbounded" }

Part(name, type, element) == [ Name |-> name, Type |-> type, Element |-> element ]
Message(name, parts) == [ Name |-> name, Parts |-> parts ]
IO(message) == << [ Message |-> message ] >>
Operation(name, input, output) ==
  [ Name |-> name, Input |-> input, Output |-> output ]
BindingOperation(name, action12, action11) ==
  [ Name |-> name, Operation |-> [ Action |-> action12 ],
    Operation11 |-> [ Action |-> action11 ] ]
Binding(name, type, bindingType, operations) ==
  [ Name |-> name, Type |-> type, BindingType |-> bindingType,
    Operations |-> operations ]
PortType(name, operations) == [ Name |-> name, Operations |-> operations ]
Import(location) == [ Location |-> location ]

NoBinding == Binding("", NoQN, << >>, << >>)
NoPortType == PortType("", << >>)

World(fam, root, docs, dst, syntaxOK, gofmtOK) ==
  [ fam |-> fam, root |-> root, docs |-> docs, dst |-> dst,
    syntaxOK |-> syntaxOK, gofmtOK |-> gofmtOK, localNamespace |-> "" ]

RootLoc == Loc("", "root.wsdl")

\* the parts of the input message MIn: n string parts
RECURSIVE StringParts(_)
StringParts(n) ==
  IF n = 0 THEN << >>
  ELSE StringParts(n - 1) \o << Part("x", XS("string"), NoQN) >>

(* Operations and bindings: one operation Ping whose input and output     *)
(* messages may be absent, undefined or defined, with or without binding  *)
(* entry, and optionally a second operation Echo: well-formed and bound   *)
(* or unbound, or bound and without input.                                *)
OpsDefinitions(pin, pout, bound, a12, a11, style, btype, echo, parts) ==
  Definitions("svc", "urn:svc", << {"tns", "xs"} >>, << >>, EmptySchema,
    << Message("MIn", parts),
       Message("MOut", << Part("id", XS("int"), NoQN) >>) >>,
    PortType("PT",
      << Operation("Ping", pin, pout) >>
        \o (IF echo = "none" THEN << >>
            ELSE << Operation("Echo",
                              IF echo = "noinput" THEN << >>
                              ELSE IO(TNS("MIn")),
                              IO(TNS("MOut"))) >>)),
    Binding("PTB", btype, style,
      (IF bound THEN << BindingOperation("Ping", a12, a11) >> ELSE << >>)
        \o (IF echo \in { "bound", "noinput" }
            THEN << BindingOperation("Echo", "", "") >>
            ELSE << >>)))

OpsWorlds ==
  { World("ops", RootLoc,
          [ l \in { RootLoc } |->
              DefinitionsDoc(OpsDefinitions(pin, pout, b.bound, b.a12, b.a11,
                                            style, btype, echo,
                                            StringParts(n))) ],
          "stdout", TRUE, TRUE) :
      pin \in { << >>, IO(TNS("MIn")), IO(QN("", "MIn")), IO(TNS("Missing")) },
      pout \in { << >>, IO(TNS("MOut")), IO(TNS("Missing")) },
      b \in { [ bound |-> FALSE, a12 |-> "", a11 |-> "" ] }
              \cup [ bound : { TRUE }, a12 : { "", "urn:a12" }, a11 : { "", "urn:a11" } ],
      style \in { << >>, << [ Style |-> "rpc" ] >>, << [ Style |-> "document" ] >> },
      btype \in { NoQN, TNS("PT"), TNS("Other") },
      echo \in { "none", "bound", "unbound", "noinput" },
      n \in 0..MaxParts }


(* Types: A holds one element; B extends A and declares one element of   *)
(* its own; C holds a reference to x, or an element "items" wrapping a    *)
(* one-element sequence, or a plain element; x may also be declared at    *)
(* the top level of the schema.                                           *)
SeqOf(els) == << Sequence(<< >>, els, << >>, << >>) >>

TypeA(aName, aMax) ==
  ComplexType("A", FALSE, << >>, << >>,
              SeqOf(<< Element(aName, NoQN, XS("int"), 1, aMax, FALSE, << >>) >>),
              << >>, << >>)

TypeB(bName) ==
  ComplexType("B", FALSE, << >>,
    << ComplexContent(
         << Extension(TNS("A"),
                      SeqOf(<< Element(bName, NoQN, XS("string"), 1, "", FALSE, << >>) >>),
                      << >>, << Attribute("name", XS("string")) >>) >>,
         << >>) >>,
    << >>, << >>, << >>)

Inner(max) == Element("item", NoQN, XS("string"), 1, max, FALSE, << >>)

ElementC(kind, max, innerMax) ==
  CASE kind = "ref" -> Element("", TNS("x"), NoQN, 1, max, FALSE, << >>)
    [] kind = "collapse" ->
         Element("items", NoQN, NoQN, 1, max, FALSE,
                 << ComplexType("", FALSE, << >>, << >>,
                                SeqOf(<< Inner(innerMax) >>), << >>, << >>) >>)
    [] OTHER -> Element("x", NoQN, XS("string"), 1, max, FALSE, << >>)

TypeC(kind, max, innerMax) ==
  ComplexType("C", FALSE, << >>, << >>,
              SeqOf(<< ElementC(kind, max, innerMax) >>), << >>, << >>)

TypesDefinitions(aName, aMax, bName, top, kind, max, innerMax) ==
  Definitions("svc", "urn:svc", << {"tns", "xs"} >>, << >>,
    Schema("urn:types", {"tns"}, << >>, << >>, << >>,
           << TypeA(aName, aMax), TypeB(bName), TypeC(kind, max, innerMax) >>,
           top),
    << >>, NoPortType, NoBinding)

TypesWorlds ==
  { World("types", RootLoc,
          [ l \in { RootLoc } |->
              DefinitionsDoc(TypesDefinitions(aName, aMax, bName, top,
                                              c.kind, c.max, c.inner)) ],
          "stdout", TRUE, TRUE) :
      aName \in { "id", "x" },
      aMax \in { "", "unbounded" },
      bName \in { "id", "name" },
      top \in { << >> }
                \cup { << Element("x", NoQN, XS("string"), 1, m, FALSE, << >>) >> :
                         m \in { "", "unbounded" } },
      c \in [ kind : { "ref", "plain" }, max : MaxOccursValues, inner : { "" } ]
              \cup [ kind : { "collapse" }, max : MaxOccursValues,
                     inner : MaxOccursValues ] }

(* Imports: the root schema imports up to two locations; the schema S1   *)
(* may import the root, itself or S2 and may include S2; one location     *)
(* serves nothing. Locations are all http URLs or all local paths.        *)
L(scheme, name) == Loc(scheme, name)

SchemaS1(scheme, imports, includes) ==
  Schema("urn:s1", {"s1"}, imports, includes, << >>, << TypeB("name") >>, << >>)

SchemaS2 ==
  Schema("urn:s2", {"s2"}, << >>, << >>, << >>,
         << TypeC("plain", "", "") >>, << >>)

ImportDefinitions(rootImports) ==
  Definitions("svc", "urn:svc", << {"tns", "xs"} >>, << >>,
    Schema("urn:types", {"tns"}, rootImports, << >>, << >>,
           << TypeA("id", "") >>, << >>),
    << >>, NoPortType, NoBinding)

ImportDocs(scheme, rootImports, s1Imports, s1Includes) ==
  [ l \in { L(scheme, "root.wsdl"), L(scheme, "s1.xsd"), L(scheme, "s2.xsd") } |->
      CASE l.path = "root.wsdl" -> DefinitionsDoc(ImportDefinitions(rootImports))
        [] l.path = "s1.xsd" -> SchemaDoc(SchemaS1(scheme, s1Imports, s1Includes))
        [] OTHER -> SchemaDoc(SchemaS2) ]

\* sequences of at most two imports over a set of locations
ImportLists(locs) ==
  { << >> } \cup { << Import(a) >> : a \in locs }
    \cup { << Import(a), Import(b) >> : a \in locs, b \in locs }

ImportWorldsOf(scheme) ==
  { World("import", L(scheme, "root.wsdl"),
          ImportDocs(scheme, rootImports, s1Imports, s1Includes),
          "stdout", TRUE, TRUE) :
      rootImports \in ImportLists({ L(scheme, "s1.xsd"), L(scheme, "s2.xsd"),
                                    L(scheme, "none.xsd") }),
      s1Imports \in { << >>, << Import(L(scheme, "root.wsdl")) >>,
                      << Import(L(scheme, "s1.xsd")) >>,
                      << Import(L(scheme, "s2.xsd")) >> },
      s1Includes \in { << >>, << Import(L(scheme, "s2.xsd")) >> } }

ImportWorlds == ImportWorldsOf("http") \cup ImportWorldsOf("")

(* Keywords: the input message of Ping and Echo has a part named like   *)
(* the Go keyword "type", alone or after a part of another name; Ping is  *)
(* bound or not, Echo is absent, bound or unbound.                        *)
KeywordWorlds ==
  { World("keyword", RootLoc,
          [ l \in { RootLoc } |->
              DefinitionsDoc(OpsDefinitions(IO(TNS("MIn")), IO(TNS("MOut")),
                                            bound, "", a11, style, TNS("PT"),
                                            echo, parts)) ],
          "stdout", TRUE, TRUE) :
      bound \in BOOLEAN, a11 \in { "", "urn:a11" },
      style \in { << >>, << [ Style |-> "rpc" ] >> },
      echo \in { "none", "bound", "unbound" },
      parts \in { << Part("type", XS("string"), NoQN) >>,
                  << Part("x", XS("string"), NoQN),
                     Part("type", TNS("A"), NoQN) >> } }

(* Simple types: Color restricts xs:string and Level restricts xs:int,   *)
(* each with or without enumeration, and X may be a union of the two.     *)
Enums(values) == [ i \in DOMAIN values |-> Enum(values[i]) ]

SimpleDefinitions(colors, levels, union) ==
  Definitions("svc", "urn:svc", << {"tns", "xs"} >>, << >>,
    Schema("urn:types", {"tns"}, << >>, << >>,
           << SimpleType("Level", << >>,
                         << Restriction(XS("int"), Enums(levels)) >>),
              SimpleType("Color", << >>,
                         << Restriction(XS("string"), Enums(colors)) >>) >>
             \o (IF union
                 THEN << SimpleType("X",
                           << Union(<< TNS("Color"), TNS("Level") >>) >>,
                           << >>) >>
                 ELSE << >>),
           << ComplexType("A", FALSE, << >>, << >>,
                SeqOf(<< Element("x", NoQN, TNS("Color"), 1, "", FALSE, << >>) >>),
                << >>, << >>) >>,
           << >>),
    << >>, NoPortType, NoBinding)

SimpleWorlds ==
  { World("simple", RootLoc,
          [ l \in { RootLoc } |->
              DefinitionsDoc(SimpleDefinitions(colors, levels, union)) ],
          "stdout", TRUE, TRUE) :
      colors \in { << >>, << "RED" >>, << "RED", "GREEN" >> },
      levels \in { << >>, << "1", "2" >> },
      union \in BOOLEAN }

(* Shapes: next to the type A with one element and the type B without   *)
(* content, the type C is abstract or not, with or without attribute, and *)
(* its content is one of: nothing, a sequence, a choice or an all group,  *)
(* empty or with an element, a sequence whose choice has an element, a    *)
(* wildcard, an extension of A or of B, or a restriction, of a SOAP array *)
(* or not.                                                                *)
Contents ==
  { "none", "emptyseq", "seq", "seqchoice", "anyseq", "emptychoice",
    "choice", "anychoice", "all", "extA", "extB", "array", "restr" }

ElementX == Element("x", NoQN, XS("string"), 1, "", FALSE, << >>)
AnyElement == [ Min |-> 0, Max |-> "unbounded" ]

ArrayRestriction ==
  [ Restriction(QN("soapenc", "Array"), << >>) EXCEPT
      !.Attributes = << [ Attribute("", NoQN) EXCEPT !.ArrayType = "tns:A[]" ] >> ]

ShapeC(abstract, attrs, content) ==
  ComplexType("C", abstract,
    IF content = "all" THEN << ElementX >> ELSE << >>,
    CASE content = "extA" ->
           << ComplexContent(<< Extension(TNS("A"), << >>, << >>, << >>) >>, << >>) >>
      [] content = "extB" ->
           << ComplexContent(<< Extension(TNS("B"), << >>, << >>, << >>) >>, << >>) >>
      [] content = "array" -> << ComplexContent(<< >>, << ArrayRestriction >>) >>
      [] content = "restr" ->
           << ComplexContent(<< >>, << Restriction(TNS("A"), << >>) >>) >>
      [] OTHER -> << >>,
    CASE content = "emptyseq" -> << Sequence(<< >>, << >>, << >>, << >>) >>
      [] content = "seq" -> << Sequence(<< >>, << ElementX >>, << >>, << >>) >>
      [] content = "seqchoice" ->
           << Sequence(<< >>, << >>, << >>,
                       << Choice(<< >>, << ElementX >>, << >>) >>) >>
      [] content = "anyseq" -> << Sequence(<< >>, << >>, << AnyElement >>, << >>) >>
      [] OTHER -> << >>,
    CASE content = "emptychoice" -> << Choice(<< >>, << >>, << >>) >>
      [] content = "choice" -> << Choice(<< >>, << ElementX >>, << >>) >>
      [] content = "anychoice" -> << Choice(<< >>, << >>, << AnyElement >>) >>
      [] OTHER -> << >>,
    attrs)

ShapeWorlds ==
  { World("shape", RootLoc,
          [ l \in { RootLoc } |->
              DefinitionsDoc(
                Definitions("svc", "urn:svc", << {"tns", "xs"} >>, << >>,
                  Schema("urn:types", {"tns"}, << >>, << >>, << >>,
                         << TypeA("id", ""),
                            ComplexType("B", FALSE, << >>, << >>, << >>, << >>, << >>),
                            ShapeC(abstract, attrs, content) >>,
                         << >>),
                  << >>, NoPortType, NoBinding)) ],
          "stdout", TRUE, TRUE) :
      abstract \in BOOLEAN,
      attrs \in { << >>, << Attribute("name", XS("string")) >> },
      content \in Contents }

(* Other schemes: a local root whose schema imports an ftp URL; the path *)
(* of the URL names a local file that exists, or one that does not.       *)
FtpWorlds ==
  { World("ftp", L("", "root.wsdl"),
          ImportDocs("", << Import(L("ftp", path)) >>, << >>, << >>),
          "stdout", TRUE, TRUE) :
      path \in { "s1.xsd", "none.xsd" } }

(* Root-level import: a root holding nothing but an import of the WSDL   *)
(* at service.wsdl, and the same WSDL given directly.                     *)
ServiceDefinitions(tns, style) ==
  Definitions("svc", "urn:svc", << {"tns", "xs"} >>, << >>,
    Schema(tns, {"tns"}, << >>, << >>, << >>,
           << TypeA("id", ""), TypeB("name") >>, << >>),
    << Message("MIn", StringParts(1)),
       Message("MOut", << Part("id", XS("int"), NoQN) >>) >>,
    PortType("PT", << Operation("Ping", IO(TNS("MIn")), IO(TNS("MOut"))) >>),
    Binding("PTB", TNS("PT"), style, << BindingOperation("Ping", "", "urn:a11") >>))

ImporterDefinitions(scheme) ==
  Definitions("", "", << {"wsdl"} >>, << Import(L(scheme, "service.wsdl")) >>,
              EmptySchema, << >>, NoPortType, NoBinding)

ServiceDocs(scheme, tns, style) ==
  [ l \in { L(scheme, "importer.wsdl"), L(scheme, "service.wsdl") } |->
      IF l.path = "importer.wsdl"
      THEN DefinitionsDoc(ImporterDefinitions(scheme))
      ELSE DefinitionsDoc(ServiceDefinitions(tns, style)) ]

ServiceWorlds ==
  { World("service", L(scheme, root), ServiceDocs(scheme, tns, style),
          dst, syntaxOK, gofmtOK) :
      scheme \in { "http", "" },
      root \in { "importer.wsdl", "service.wsdl" },
      tns \in { "", "urn:w" },
      style \in { << >>, << [ Style |-> "rpc" ] >> },
      dst \in { "file", "stdout" },
      syntaxOK \in BOOLEAN, gofmtOK \in BOOLEAN }

(* Failing runs: a source that is not a WSDL document, and the error     *)
(* cases of the other families, each with a destination file.             *)
BrokenWorlds ==
  { World("broken", RootLoc, [ l \in { RootLoc } |-> BrokenDoc ],
          dst, TRUE, TRUE) : dst \in { "file", "stdout" } }

ToFile(ws) == { [ x EXCEPT !.dst = "file" ] : x \in ws }

(* Marker types: Ping takes a part of a type that varies over string,    *)
(* date and dateTime, Echo takes a string; each has a binding entry or     *)
(* not; the type A holds an element of type string or date, and the       *)
(* simple type X may be a union with the member type time.                *)
DateDefinitions(pingType, pingBound, echoBound, fieldType, union) ==
  Definitions("svc", "urn:svc", << {"tns", "xs"} >>, << >>,
    Schema("urn:types", {"tns"}, << >>, << >>,
           IF union
           THEN << SimpleType("X", << Union(<< XS("time"), XS("string") >>) >>,
                              << >>) >>
           ELSE << >>,
           << ComplexType("A", FALSE, << >>, << >>,
                SeqOf(<< Element("x", NoQN, fieldType, 1, "", FALSE, << >>) >>),
                << >>, << >>) >>,
           << >>),
    << Message("MIn", StringParts(1)),
       Message("MWhen", << Part("x", pingType, NoQN) >>),
       Message("MOut", << Part("id", XS("int"), NoQN) >>) >>,
    PortType("PT", << Operation("Ping", IO(TNS("MWhen")), IO(TNS("MOut"))),
                      Operation("Echo", IO(TNS("MIn")), IO(TNS("MOut"))) >>),
    Binding("PTB", TNS("PT"), << >>,
      (IF pingBound THEN << BindingOperation("Ping", "", "") >> ELSE << >>)
        \o (IF echoBound THEN << BindingOperation("Echo", "", "") >>
            ELSE << >>)))

DateWorlds ==
  { World("date", RootLoc,
          [ l \in { RootLoc } |->
              DefinitionsDoc(DateDefinitions(pingType, pingBound, echoBound,
                                             fieldType, union)) ],
          "stdout", TRUE, TRUE) :
      pingType \in { XS("string"), XS("date"), XS("dateTime") },
      pingBound \in BOOLEAN, echoBound \in BOOLEAN,
      fieldType \in { XS("string"), XS("date") },
      union \in BOOLEAN }

(* Chains: the root schema imports S1, S1 imports or includes S2 or       *)
(* neither, S2 imports or includes S3 or neither; the locations differ.   *)
Link(kind, loc) == IF kind = "none" THEN << >> ELSE << Import(loc) >>

ChainSchema(n, scheme, kind, ct) ==
  Schema("urn:chain", {"c"},
         IF kind = "import" THEN Link(kind, L(scheme, n)) ELSE << >>,
         IF kind = "include" THEN Link(kind, L(scheme, n)) ELSE << >>,
         << >>, << ct >>, << >>)

SchemaS3 ==
  Schema("urn:s3", {"s3"}, << >>, << >>,
         << SimpleType("Color", << >>, << Restriction(XS("string"), << >>) >>) >>,
         << ComplexType("X", FALSE, << >>, << >>, SeqOf(<< ElementX >>),
                        << >>, << >>) >>,
         << Element("item", NoQN, XS("string"), 1, "", FALSE, << >>) >>)

ChainDocs(scheme, l12, l23) ==
  [ l \in { L(scheme, "root.wsdl"), L(scheme, "s1.xsd"), L(scheme, "s2.xsd"),
            L(scheme, "s3.xsd") } |->
      CASE l.path = "root.wsdl" ->
             DefinitionsDoc(ImportDefinitions(<< Import(L(scheme, "s1.xsd")) >>))
        [] l.path = "s1.xsd" ->
             SchemaDoc(ChainSchema("s2.xsd", scheme, l12, TypeB("name")))
        [] l.path = "s2.xsd" ->
             SchemaDoc(ChainSchema("s3.xsd", scheme, l23, TypeC("plain", "", "")))
        [] OTHER -> SchemaDoc(SchemaS3) ]

ChainWorlds ==
  { World("chain", L(scheme, "root.wsdl"), ChainDocs(scheme, l12, l23),
          "stdout", TRUE, TRUE) :
      scheme \in { "http", "" },
      l12 \in { "none", "import", "include" },
      l23 \in { "none", "import", "include" } }

(* Occurrence attributes: the type A holds one element for each way of    *)
(* writing minOccurs (absent, "0", "1") and nillable (absent, "true"),    *)
(* all of one type and one maxOccurs.                                     *)
OccursWritten ==
  << [ name |-> "id",    minOccurs |-> "",  nillable |-> FALSE ],
     [ name |-> "item",  minOccurs |-> "0", nillable |-> FALSE ],
     [ name |-> "items", minOccurs |-> "1", nillable |-> FALSE ],
     [ name |-> "name",  minOccurs |-> "",  nillable |-> TRUE ],
     [ name |-> "type",  minOccurs |-> "0", nillable |-> TRUE ],
     [ name |-> "x",     minOccurs |-> "1", nillable |-> TRUE ] >>

\* the element as decoded from what is written
OccursElement(o, type, max) ==
  Element(o.name, NoQN, type, minOccursAttr(o.minOccurs), max, o.nillable, << >>)

OccursWorlds ==
  { World("occurs", RootLoc,
          [ l \in { RootLoc } |->
              DefinitionsDoc(
                Definitions("svc", "urn:svc", << {"tns", "xs"} >>, << >>,
                  Schema("urn:types", {"tns"}, << >>, << >>, << >>,
                         << ComplexType("A", FALSE, << >>, << >>,
                              SeqOf([ i \in DOMAIN OccursWritten |->
                                        OccursElement(OccursWritten[i], type, max) ]),
                              << >>, << >>),
                            ComplexType("B", FALSE, << >>, << >>, << >>, << >>, << >>) >>,
                         << >>),
                  << >>, NoPortType, NoBinding)) ],
          "stdout", TRUE, TRUE) :
      type \in { XS("string"), XS("int"), TNS("B") },
      max \in { "", "1", "unbounded" } }

(* Extension cycles: the types A and B, each plain or extending A or B,   *)
(* so that a type may extend itself and the two may extend each other.    *)
Extending(name, base, elName) ==
  IF base = "" THEN
    ComplexType(name, FALSE, << >>, << >>,
                SeqOf(<< Element(elName, NoQN, XS("string"), 1, "", FALSE, << >>) >>),
                << >>, << >>)
  ELSE
    ComplexType(name, FALSE, << >>,
      << ComplexContent(
           << Extension(TNS(base),
                        SeqOf(<< Element(elName, NoQN, XS("string"), 1, "", FALSE, << >>) >>),
                        << >>, << >>) >>,
           << >>) >>,
      << >>, << >>, << >>)

CycleWorlds ==
  { World("cycle", RootLoc,
          [ l \in { RootLoc } |->
              DefinitionsDoc(
                Definitions("svc", "urn:svc", << {"tns", "xs"} >>, << >>,
                  Schema("urn:types", {"tns"}, << >>, << >>, << >>,
                         << Extending("A", aBase, "id"),
                            Extending("B", bBase, "name") >>,
                         << >>),
                  << >>, NoPortType, NoBinding)) ],
          "stdout", TRUE, TRUE) :
      aBase \in { "", "A", "B" }, bBase \in { "", "A", "B" } }

(* Name conflicts: one operation without binding entry, named Ping or     *)
(* ping, next to complex types among Ping, ping and PingFunc and to a     *)
(* simple type Ping or none; Ping and ping, which would be declared under *)
(* one Go name, are never both complex types.                             *)
Named(name) ==
  ComplexType(name, FALSE, << >>, << >>,
              SeqOf(<< Element("id", NoQN, XS("int"), 1, "", FALSE, << >>) >>),
              << >>, << >>)

ConflictDefinitions(opName, cts, sts) ==
  Definitions("svc", "urn:svc", << {"tns", "xs"} >>, << >>,
    Schema("urn:types", {"tns"}, << >>, << >>, sts, cts, << >>),
    << Message("MIn", StringParts(1)),
       Message("MOut", << Part("id", XS("int"), NoQN) >>) >>,
    PortType("PT", << Operation(opName, IO(TNS("MIn")), IO(TNS("MOut"))) >>),
    NoBinding)

ConflictWorlds ==
  { World("conflict", RootLoc,
          [ l \in { RootLoc } |->
              DefinitionsDoc(
                ConflictDefinitions(opName,
                  (IF "Ping" \in cts THEN << Named("Ping") >> ELSE << >>)
                    \o (IF "PingFunc" \in cts THEN << Named("PingFunc") >> ELSE << >>)
                    \o (IF "ping" \in cts THEN << Named("ping") >> ELSE << >>),
                  IF st THEN << SimpleType("Ping", << >>,
                                           << Restriction(XS("string"), << >>) >>) >>
                  ELSE << >>)) ],
          "stdout", TRUE, TRUE) :
      opName \in { "Ping", "ping" },
      cts \in { c \in SUBSET { "Ping", "PingFunc", "ping" } :
                  ~({ "Ping", "ping" } \subseteq c) },
      st \in BOOLEAN }

Worlds ==
  OpsWorlds \cup TypesWorlds \cup ImportWorlds \cup ServiceWorlds
    \cup BrokenWorlds \cup FtpWorlds \cup KeywordWorlds \cup SimpleWorlds
    \cup ShapeWorlds \cup DateWorlds \cup ChainWorlds \cup OccursWorlds
    \cup CycleWorlds \cup ConflictWorlds
    \cup ToFile({ x \in OpsWorlds :
                    /\ x.docs[x.root].def[1].Binding.BindingType = << >>
                    /\ Len(x.docs[x.root].def[1].PortType.Operations) = 1
                    /\ Len(x.docs[x.root].def[1].Messages[1].Parts) = 0 })
    \cup ToFile({ x \in ImportWorlds :
                    Len(x.docs[x.root].def[1].Schema.Imports) = 1 })

(* ------------------------------------------------------------------ *)
(* The specification                                                   *)
(* ------------------------------------------------------------------ *)

Init ==
  /\ world \in Worlds
  /\ pc = "main"
  /\ run = NewRun
  /\ w = << >>
  /\ file \in IF world.dst = "file"
               THEN { [ exists |-> FALSE, content |-> "" ],
                      [ exists |-> TRUE, content |-> "old" ] }
               ELSE { [ exists |-> FALSE, content |-> "" ] }
  /\ exit = [ how |-> "", err |-> NoErr ]

Next ==
  \/ OpenDst
  \/ Unmarshal
  \/ EncodeUnion
  \/ ImportRoot
  \/ ImportSchemaEntry
  \/ CacheTypes
  \/ CacheFuncs
  \/ CacheMessages
  \/ CacheSOAPOperations
  \/ WriteInterfaceFuncs
  \/ WriteGoTypes
  \/ WritePortType
  \/ WriteGoFuncs
  \/ WriteHeader
  \/ ParseFile
  \/ Gofmt

Spec == Init /\ [][Next]_vars

(* ------------------------------------------------------------------ *)
(* Strings, character by character                                     *)
(*                                                                     *)
(* goSymbol and BindingPackageName.String are functions of the         *)
(* characters of a name. Here a string is a sequence of one-character  *)
(* strings, and a second specification applies the two functions to    *)
(* every string of at most MaxLen characters of the alphabet.          *)
(* ------------------------------------------------------------------ *)

MaxLen == 4

\* the letters the model knows, lower case and upper case side by side
Lowers == << "a", "z", "e", "p", "r", "s" >>
Uppers == << "A", "Z", "E", "P", "R", "S" >>
Digits == { "1" }
Alphabet == { "a", "z", "A", "Z" } \cup Digits \cup { "_", ".", ":" }

Strings == UNION { [ 1..k -> Alphabet ] : k \in 0..MaxLen }

IsLower(c) == \E i \in DOMAIN Lowers : Lowers[i] = c
IsUpper(c) == \E i \in DOMAIN Uppers : Uppers[i] = c

\* the other case of a letter
ToggleRune(c) ==
  IF IsLower(c) THEN Uppers[CHOOSE i \in DOMAIN Lowers : Lowers[i] = c]
  ELSE IF IsUpper(c) THEN Lowers[CHOOSE i \in DOMAIN Uppers : Uppers[i] = c]
  ELSE c

\* unicode.ToTitle and unicode.ToLower of one character
ToTitleRune(c) ==
  IF IsLower(c) THEN Uppers[CHOOSE i \in DOMAIN Lowers : Lowers[i] = c] ELSE c
ToLowerRune(c) ==
  IF IsUpper(c) THEN Lowers[CHOOSE i \in DOMAIN Uppers : Uppers[i] = c] ELSE c

\* the class [0-9_] and the class [^0-9a-zA-Z_] of invalidGoSymbol
IsNumeric(c) == c \in Digits \cup { "_" }
IsInvalid(c) == ~(IsLower(c) \/ IsUpper(c) \/ IsNumeric(c))

\* strings.SplitN(s, ":", 2) of trimns: what follows the first colon, or
\* s itself when it holds none
trimnsString(s) ==
  IF \A i \in DOMAIN s : s[i] # ":" THEN s
  ELSE LET n == CHOOSE i \in DOMAIN s :
                  s[i] = ":" /\ \A j \in 1..(i - 1) : s[j] # ":"
       IN  SubSeq(s, n + 1, Len(s))

\* the length of the longest prefix of s in the class [0-9_], and in the
\* class [^0-9a-zA-Z_]
RECURSIVE NumericRun(_)
NumericRun(s) ==
  IF s = << >> \/ ~IsNumeric(Head(s)) THEN 0 ELSE 1 + NumericRun(Tail(s))

RECURSIVE InvalidRun(_)
InvalidRun(s) ==
  IF s = << >> \/ ~IsInvalid(Head(s)) THEN 0 ELSE 1 + InvalidRun(Tail(s))

\* invalidGoSymbol.ReplaceAllString(s, " "): leftmost matches of
\* [0-9_]*[^0-9a-zA-Z_]+, each as long as it can be, become one space
RECURSIVE ReplaceAllString(_)
ReplaceAllString(s) ==
  IF s = << >> THEN << >>
  ELSE LET n == NumericRun(s)
           rest == SubSeq(s, n + 1, Len(s))
           k == InvalidRun(rest)
       IN  IF k > 0
           THEN << " " >> \o ReplaceAllString(SubSeq(rest, k + 1, Len(rest)))
           ELSE << Head(s) >> \o ReplaceAllString(Tail(s))

\* strings.Split(s, " "): the parts between the spaces, empty ones included
RECURSIVE Split(_)
Split(s) ==
  IF \A i \in DOMAIN s : s[i] # " " THEN << s >>
  ELSE LET n == CHOOSE i \in DOMAIN s :
                  s[i] = " " /\ \A j \in 1..(i - 1) : s[j] # " "
       IN  << SubSeq(s, 1, n - 1) >> \o Split(SubSeq(s, n + 1, Len(s)))

\* strings.Title: the character after a separator, and the first one, is
\* mapped to title case; letters, digits and underscore do not separate
RECURSIVE TitleAfter(_, _)
TitleAfter(prev, s) ==
  IF s = << >> THEN << >>
  ELSE << IF IsInvalid(prev) THEN ToTitleRune(Head(s)) ELSE Head(s) >>
         \o TitleAfter(Head(s), Tail(s))

TitleString(s) == TitleAfter(" ", s)

\* the loop of goSymbol: name += strings.Title(part)
RECURSIVE TitleParts(_)
TitleParts(parts) ==
  IF parts = << >> THEN << >>
  ELSE TitleString(Head(parts)) \o TitleParts(Tail(parts))

\* goSymbol
goSymbolString(s) == TitleParts(Split(ReplaceAllString(trimnsString(s))))

\* strings.ToLower
RECURSIVE ToLowerString(_)
ToLowerString(s) ==
  IF s = << >> THEN << >>
  ELSE << ToLowerRune(Head(s)) >> \o ToLowerString(Tail(s))

\* a replacement that removes nothing
KeepDots(s) == s

\* strings.Replace(s, ".", "", -1)
RECURSIVE RemoveDots(_)
RemoveDots(s) ==
  IF s = << >> THEN << >>
  ELSE IF Head(s) = "." THEN RemoveDots(Tail(s))
  ELSE << Head(s) >> \o RemoveDots(Tail(s))

fallbackPackageName == << "i", "n", "t", "e", "r", "n", "a", "l" >>

\* BindingPackageName.String
PackageNameOf(packageName) ==
  IF packageName = << >> THEN fallbackPackageName ELSE packageName

String(p) == PackageNameOf(RemoveDots(ToLowerString(p.Name)))

\* a call of fn on the string input; run holds the result, w the result
\* of applying goSymbol to it once more
StringInit ==
  /\ world \in [ fn : { "goSymbol", "String" }, input : Strings ]
  /\ pc = "call"
  /\ run = << >>
  /\ w = << >>
  /\ file = [ exists |-> FALSE, content |-> "" ]
  /\ exit = [ how |-> "", err |-> NoErr ]

CallGoSymbol ==
  /\ pc = "call" /\ world.fn = "goSymbol"
  /\ run' = goSymbolString(world.input)
  /\ pc' = "again"
  /\ UNCHANGED << world, w, file, exit >>

CallGoSymbolAgain ==
  /\ pc = "again"
  /\ w' = goSymbolString(run)
  /\ pc' = "done"
  /\ UNCHANGED << world, run, file, exit >>

CallString ==
  /\ pc = "call" /\ world.fn = "String"
  /\ run' = String([ Name |-> world.input ])
  /\ pc' = "done"
  /\ UNCHANGED << world, w, file, exit >>

StringNext == CallGoSymbol \/ CallGoSymbolAgain \/ CallString

StringSpec == StringInit /\ [][StringNext]_vars

(* ------------------------------------------------------------------ *)
(* The SOAP client: one round trip                                    *)
(* ------------------------------------------------------------------ *)

\* how deep the values of a request message nest
ValueDepth == 3

\* a Go value as reflection sees it: its kind, whether the address of its
\* type has the method SetXMLType, the attribute SetXMLType sets, and the
\* values below it (the pointee, the dynamic value, the elements, the fields)
Value(kind, typer, elems) ==
  [ kind |-> kind, typer |-> typer, xsi |-> FALSE, elems |-> elems ]

Basic == Value("string", FALSE, << >>)

NilPtr == Value("ptr", FALSE, << >>)

\* *T implements XMLTyper when T is a struct type with the method
PtrTo(v) == Value("ptr", v.kind = "struct" /\ v.typer, << v >>)

NilIface == Value("interface", FALSE, << >>)

Iface(v) == Value("interface", FALSE, << v >>)

Slice(elems) == Value("slice", FALSE, elems)

Struct(typer, fields) == Value("struct", typer, fields)

Leaves ==
  { Basic, NilPtr, NilIface, Slice(<< >>),
    Struct(TRUE, << >>), Struct(FALSE, << >>) }

RECURSIVE Values(_)
Values(d) ==
  IF d = 0 THEN Leaves
  ELSE LET below == Values(d - 1)
       IN Leaves
          \cup { PtrTo(v) : v \in below }
          \cup { Iface(v) : v \in { x \in below : x.kind # "interface" } }
          \cup { Slice(<< v >>) : v \in below }
          \cup { Struct(t, << v >>) : t \in BOOLEAN, v \in below }
          \cup { Struct(FALSE, << v, Struct(TRUE, << >>) >>) : v \in below }

\* reflect.ValueOf(in): the dynamic value of the message, or no value at all
Requests ==
  { v \in Values(ValueDepth) : v.kind # "interface" \/ v = NilIface }

\* no method set reaches the interface
ImplementsNothing(v) == FALSE

\* v.Type().Implements(xmlTyperType)
Implements(v) == v.typer

RECURSIVE setXMLType(_, _, _)
RECURSIVE setXMLTypeIndex(_, _, _)
RECURSIVE setXMLTypeField(_, _, _, _)

\* the structs SetXMLType was called on, named by their place in the message
setXMLType(v, canAddr, path) ==
  CASE v.kind = "interface" ->
         IF v.elems = << >> THEN << >>
         ELSE setXMLType(v.elems[1], FALSE, path \o << 1 >>)
    [] v.kind = "ptr" ->
         IF v.elems = << >> THEN << >>
         ELSE (IF Implements(v) THEN << path \o << 1 >> >> ELSE << >>)
              \o setXMLType(v.elems[1], TRUE, path \o << 1 >>)
    [] v.kind = "slice" -> setXMLTypeIndex(v, 1, path)
    [] v.kind = "struct" -> setXMLTypeField(v, 1, canAddr, path)
    [] OTHER -> << >>

setXMLTypeIndex(v, i, path) ==
  IF i > Len(v.elems) THEN << >>
  ELSE setXMLType(v.elems[i], TRUE, path \o << i >>)
       \o setXMLTypeIndex(v, i + 1, path)

\* v.Field(i).Addr() is a pointer to the field, and the field is its pointee
setXMLTypeField(v, i, canAddr, path) ==
  IF i > Len(v.elems) THEN << >>
  ELSE (IF canAddr
        THEN (IF Implements(PtrTo(v.elems[i]))
              THEN << path \o << i >> >> ELSE << >>)
             \o setXMLType(v.elems[i], TRUE, path \o << i >>)
        ELSE setXMLType(v.elems[i], FALSE, path \o << i >>))
       \o setXMLTypeField(v, i + 1, canAddr, path)

\* the message after the calls: SetXMLType sets the attribute of its receiver
RECURSIVE AfterCalls(_, _, _)
AfterCalls(v, calls, path) ==
  [ v EXCEPT
      !.xsi = \E k \in 1..Len(calls) : calls[k] = path,
      !.elems = [ i \in 1..Len(v.elems) |->
                    AfterCalls(v.elems[i], calls, path \o << i >>) ] ]

Envelope(in) ==
  [ EnvelopeAttr |-> "c.Envelope", NSAttr |-> "c.Namespace",
    XSIAttr |-> "XSINamespace", Header |-> "c.Header", Body |-> in ]

Replies == { "transport", "status", "decode", "ok" }

RoundTripInit ==
  /\ world \in [ in : Requests ]
  /\ pc = "setXMLType"
  /\ run = << >>
  /\ w = << >>
  /\ file = [ exists |-> FALSE, content |-> "" ]
  /\ exit = [ how |-> "", err |-> NoErr ]

SetXMLTypes ==
  /\ pc = "setXMLType"
  /\ \E calls \in { setXMLType(world.in, FALSE, << >>) } :
       run' = [ calls |-> calls, in |-> AfterCalls(world.in, calls, << >>) ]
  /\ pc' = "encode"
  /\ UNCHANGED << world, w, file, exit >>

EncodeEnvelope ==
  /\ pc = "encode"
  /\ w' = << Envelope(run.in) >>
  /\ pc' = "post"
  /\ UNCHANGED << world, run, file, exit >>

Post ==
  /\ pc = "post"
  /\ \E reply \in Replies :
       exit' = [ how |-> IF reply = "ok" THEN "ok" ELSE "error",
                 err |-> IF reply = "ok" THEN NoErr
                         ELSE MsgErr(reply, "", NoQN) ]
  /\ pc' = "returned"
  /\ UNCHANGED << world, run, w, file >>

RoundTripNext == SetXMLTypes \/ EncodeEnvelope \/ Post

RoundTripSpec == RoundTripInit /\ [][RoundTripNext]_vars

(* ------------------------------------------------------------------ *)
(* Parameter name conflicts                                            *)
(*                                                                     *)
(* fixParamConflicts renames the output parameters whose name is also  *)
(* the name of an input parameter, and calls itself again after a pass *)
(* that renamed something. A third specification applies it to every   *)
(* pair of parameter lists of at most MaxParams parameters.            *)
(* ------------------------------------------------------------------ *)

MaxParams == 2

\* type parameter struct
parameter(name, type) == [ Name |-> name, Type |-> type, XMLName |-> name ]

\* string(i) of an int: the one character whose code point is i
RuneString(i) == << << "U+0000", "U+0001", "U+0002", "U+0003" >>[i + 1] >>

\* a rename that keeps the name
KeepName(name, i) == name

\* "resp" + strings.Title(resp.Name) + string(i)
respName(name, i) ==
  << "r", "e", "s", "p" >> \o TitleString(name) \o RuneString(i)

\* for i, resp := range out: the inner loop for req from the i-th output
\* parameter on (i counts from 0); st holds the output parameters as they
\* are and the flag retest
RECURSIVE rangeOut(_, _, _)
rangeOut(req, st, i) ==
  IF i >= Len(st.out) THEN st
  ELSE IF req.Name = st.out[i + 1].Name
       THEN rangeOut(req,
                     [ out |-> [ st.out EXCEPT
                                   ![i + 1].Name = respName(@, i) ],
                       retest |-> TRUE ],
                     i + 1)
       ELSE rangeOut(req, st, i + 1)

\* for _, req := range in: each inner loop sees the names the earlier ones
\* have written
RECURSIVE rangeIn(_, _)
rangeIn(in, st) ==
  IF in = << >> THEN st
  ELSE rangeIn(Tail(in), rangeOut(Head(in), st, 0))

\* the names the lists are drawn from: two plain names, and the names
\* that a rename of a plain name, or of a renamed name, produces
PlainNames == { << "a" >>, << "z" >> }
RenamedNames ==
  { respName(n, i) : n \in { << "a" >> }, i \in 0..(MaxParams - 1) }
    \cup { respName(respName(<< "a" >>, 0), 0) }
InNames == PlainNames \cup RenamedNames
OutNames == PlainNames \cup { respName(<< "a" >>, 0) }

ParamLists(names, type) ==
  UNION { [ 1..k -> { parameter(n, type) : n \in names } ] : k \in 0..MaxParams }

\* a call fixParamConflicts(inParams, outParams); run holds the two lists
ParamInit ==
  /\ world \in [ fn : { "fixParamConflicts" },
                 in : ParamLists(InNames, "*In"),
                 out : ParamLists(OutNames, "*Out") ]
  /\ pc = "call"
  /\ run = [ in |-> world.in, out |-> world.out ]
  /\ w = << >>
  /\ file = [ exists |-> FALSE, content |-> "" ]
  /\ exit = [ how |-> "", err |-> NoErr ]

\* one execution of the body: the two loops, then the recursive call when
\* retest is set
ConflictsPass(at) ==
  /\ pc = at
  /\ \E r \in { rangeIn(run.in, [ out |-> run.out, retest |-> FALSE ]) } :
       /\ run' = [ run EXCEPT !.out = r.out ]
       /\ pc' = IF r.retest THEN "retest" ELSE "returned"
  /\ UNCHANGED << world, w, file, exit >>

\* the call made by writeGoFuncs and writeInterfaceFuncs
FixParamConflicts == ConflictsPass("call")

\* the call fixParamConflicts makes of itself
Retest == ConflictsPass("retest")

ParamNext == FixParamConflicts \/ Retest

\* a call that has begun runs on: nothing else is scheduled
ParamSpec == ParamInit /\ [][ParamNext]_vars /\ WF_vars(ParamNext)

(* ------------------------------------------------------------------ *)
(* Type names                                                          *)
(*                                                                     *)
(* wsdl2goType is a function of the qualified name and of the cached   *)
(* simple types, and sets the marker flags of the encoder. A fourth    *)
(* specification applies it to every qualified name over TypeLocals    *)
(* with every set of cached simple types over CachedLocals, from an    *)
(* encoder with or without a flag already set.                         *)
(* ------------------------------------------------------------------ *)

TypeLocals ==
  { "date", "Date", "dateTime", "duration", "string", "String", "int", "Int",
    "Color", "A" }
CachedLocals == { "date", "Date", "string", "Color" }

\* an encoder whose cache holds the simple types named in names
CachedEncoder(names, needs) ==
  [ NewEncoder EXCEPT
      !.stypes = [ n \in names |->
                     SimpleType(n, << >>, << Restriction(XS("string"), << >>) >>) ],
      !.needsDateTypes = needs ]

TypeInit ==
  /\ world \in [ fn : { "wsdl2goType" },
                 t : [ pfx : { "", "xs", "tns" }, local : TypeLocals ],
                 stypes : SUBSET CachedLocals,
                 needs : { {}, { "Time" } } ]
  /\ pc = "call"
  /\ run = [ ge |-> CachedEncoder(world.stypes, world.needs) ]
  /\ w = << >>
  /\ file = [ exists |-> FALSE, content |-> "" ]
  /\ exit = [ how |-> "", err |-> NoErr ]

\* typ := ge.wsdl2goType(t): w holds the result, run the encoder
CallWsdl2goType ==
  /\ pc = "call"
  /\ w' = << wsdl2goType(run.ge, world.t) >>
  /\ run' = [ run EXCEPT !.ge = wsdl2goTypeEncoder(run.ge, world.t) ]
  /\ pc' = "again"
  /\ UNCHANGED << world, file, exit >>

\* a second call with the same name, on the encoder the first one left
CallWsdl2goTypeAgain ==
  /\ pc = "again"
  /\ w' = w \o << wsdl2goType(run.ge, world.t) >>
  /\ run' = [ run EXCEPT !.ge = wsdl2goTypeEncoder(run.ge, world.t) ]
  /\ pc' = "done"
  /\ UNCHANGED << world, file, exit >>

TypeNext == CallWsdl2goType \/ CallWsdl2goTypeAgain

TypeSpec == TypeInit /\ [][TypeNext]_vars

(* ------------------------------------------------------------------ *)
(* Properties                                                          *)
(* ------------------------------------------------------------------ *)

\* the run ended with the generated text handed to the writer
Finished == pc = "exit" /\ exit.how = "ok"

\* the functions of the generated text
Funcs == w[1].body.funcs

\* the binding entries of the definitions after import
BoundOps ==
  { run.d[1].Binding.Operations[i] : i \in DOMAIN run.d[1].Binding.Operations }

\* the methods generated for the operation called name
MethodsOf(name) ==
  { i \in DOMAIN Funcs : Funcs[i].kind = "method" /\ Funcs[i].name = goSymbol(name) }

\* the round-trip call the binding entry bo asks for
IsCallOf(c, bo) ==
  /\ c.fn \in { "RoundTripSoap12", "RoundTripWithAction" }
  /\ bo.Operation.Action # ""
       => c = [ fn |-> "RoundTripSoap12", action |-> bo.Operation.Action ]
  /\ bo.Operation.Action = "" /\ bo.Operation11.Action # ""
       => c = [ fn |-> "RoundTripWithAction", action |-> bo.Operation11.Action ]

\* C9: in the text of a completed run every operation with a binding entry
\* has exactly one method, and that method makes exactly one round-trip
\* call: RoundTripSoap12 with the SOAP 1.2 action whenever that action is
\* not empty, whatever the SOAP 1.1 action; otherwise RoundTripWithAction
\* with the SOAP 1.1 action when that one is not empty.
C9_RoundTripPrecedence ==
  Finished =>
    \A bo \in BoundOps :
      \E i \in DOMAIN Funcs :
        /\ MethodsOf(bo.Name) = { i }
        /\ Len(Funcs[i].calls) = 1
        /\ IsCallOf(Funcs[i].calls[1], bo)

\* a completed run with an operation whose binding entry carries both
\* actions, and with only the SOAP 1.1 action
C9_Witness ==
  /\ Finished
  /\ \E bo \in BoundOps :
       /\ bo.Operation.Action # "" /\ bo.Operation11.Action # ""
       /\ \E i \in MethodsOf(bo.Name) : Funcs[i].calls[1].fn = "RoundTripSoap12"

\* the binding declares style "rpc"
DeclaresRPC ==
  /\ run.d[1].Binding.BindingType # << >>
  /\ run.d[1].Binding.BindingType[1].Style = "rpc"

\* the members of the request and of the response struct of a method
Members(f) ==
  { f.request[k] : k \in DOMAIN f.request }
    \cup { f.response[k] : k \in DOMAIN f.response }

\* the request of the method f is tagged tag, its response with the
\* operation's name followed by "Response", and both are wrapped in a
\* member M exactly under rpc style, where both are always present
IsWrapped(f, name, tag) ==
  /\ \A m \in Members(f) : (m.member = "M") <=> DeclaresRPC
  /\ DeclaresRPC => Len(f.request) = 1 /\ Len(f.response) = 1
  /\ \A k \in DOMAIN f.request : f.request[k].tag = tag
  /\ \A k \in DOMAIN f.response : f.response[k].tag = XMLTag("", name, "Response")

\* C10 (as amended): for every operation with a binding entry, the request
\* and the response of its method are each wrapped in a member M if and
\* only if the binding declares style "rpc" (not with another style, nor
\* with no style declared); the response is tagged with the operation's
\* name followed by "Response" and the request with the operation's name,
\* carrying the namespace prefix of the input message's name when that
\* name has one.
C10_RPCWrapper ==
  Finished =>
    \A bo \in BoundOps : \A i \in MethodsOf(bo.Name) :
      IsWrapped(Funcs[i], bo.Name,
                XMLTag(run.ge.funcs[bo.Name].Input[1].Message.pfx, bo.Name, ""))

\* C10 (as stated): the same, the request tagged with the operation's name
C10_RequestTaggedByName ==
  Finished =>
    \A bo \in BoundOps : \A i \in MethodsOf(bo.Name) :
      IsWrapped(Funcs[i], bo.Name, XMLTag("", bo.Name, ""))

\* a completed run under rpc style whose method wraps request and response,
\* the input message being named with a prefix
C10_Witness ==
  /\ Finished /\ DeclaresRPC
  /\ \E bo \in BoundOps : \E i \in MethodsOf(bo.Name) :
       /\ Funcs[i].request # << >> /\ Funcs[i].request[1].member = "M"
       /\ Funcs[i].response # << >> /\ Funcs[i].response[1].member = "M"
       /\ Funcs[i].request[1].tag.pfx = "tns"


\* the port-type operations of the definitions being encoded
PortTypeOps ==
  { run.d[1].PortType.Operations[i] : i \in DOMAIN run.d[1].PortType.Operations }

\* the names of the messages the definitions declare
MessageNames ==
  { run.d[1].Messages[i].Name : i \in DOMAIN run.d[1].Messages }

\* the messages the operation op names that are absent from the cache,
\* each with the kind of the error that reports it
MissingOf(op) ==
  { [ kind |-> "input message", msg |-> op.Input[k].Message ] :
      k \in { k \in DOMAIN op.Input :
                trimns(op.Input[k].Message) \notin MessageNames } }
    \cup
  { [ kind |-> "output message", msg |-> op.Output[k].Message ] :
      k \in { k \in DOMAIN op.Output :
                trimns(op.Output[k].Message) \notin MessageNames } }

\* the binding names the port type, or names nothing
BindingMatches ==
  \/ run.d[1].Binding.Type = NoQN
  \/ trimns(run.d[1].Binding.Type) = run.d[1].PortType.Name

\* C1: when some port-type operation names an input or an output message
\* absent from the message cache, the run ends with an error that names
\* the operation and the local name of the missing message, and nothing
\* is written to the output writer, with or without binding entry and in
\* either pipeline.  Bindings that name another port type, which
\* writeGoFuncs reports with an error of its own, are set aside.
C1_UndefinedMessage ==
  ( /\ pc = "exit" /\ run.d # << >> /\ BindingMatches
    /\ \E op \in PortTypeOps : MissingOf(op) # {} )
  => /\ exit.how = "error"
     /\ \E op \in PortTypeOps : \E m \in MissingOf(op) :
          exit.err = MsgErr(m.kind, op.Name, QN("", trimns(m.msg)))
     /\ w = << >>


\* what Encode gives on the definitions and import contents of this run
\* when the last loop of cacheTypes visits the complex types in sorted order
SortedRun == Encode(world.docs, world.docs[world.root].def[1])

\* C2: two runs of Encode on equal definitions with equal import contents
\* produce identical text, whatever order the maps of the encoder are
\* ranged over: the text of a completed run, in which cacheTypes visited
\* the complex types in some order, is the text of the run on the same
\* input in which it visits them in sorted order; the field emitted for
\* an element reference does not depend on that order.
C2_Deterministic ==
  Finished => /\ SortedRun.how = "ok"
              /\ w = SortedRun.text


\* the definitions the run was started on
RootDef == world.docs[world.root].def[1]

\* the imports of the schema at location l that point back to the root
\* document or to the schema itself
IsBackRef(l, imp) == imp.Location \in { world.root, l }

\* the locations the root schema imports that serve a schema with such a
\* back-reference
BackRefLocs ==
  { l \in { RootDef.Schema.Imports[i].Location : i \in DOMAIN RootDef.Schema.Imports } :
      /\ l \in DOMAIN world.docs
      /\ world.docs[l].root = "schema"
      /\ \E j \in DOMAIN world.docs[l].schema[1].Imports :
           IsBackRef(l, world.docs[l].schema[1].Imports[j]) }

\* the imports of a schema with the back-references removed
RECURSIVE DropBackRefs(_, _)
DropBackRefs(l, imports) ==
  IF imports = << >> THEN << >>
  ELSE (IF IsBackRef(l, Head(imports)) THEN << >> ELSE << Head(imports) >>)
         \o DropBackRefs(l, Tail(imports))

\* the same documents with the back-references removed
DocsWithoutBackRefs ==
  [ l \in DOMAIN world.docs |->
      IF l \in BackRefLocs
      THEN SchemaDoc([ world.docs[l].schema[1] EXCEPT
                         !.Imports = DropBackRefs(l, @) ])
      ELSE world.docs[l] ]

\* import resolution on those documents, and the caches it leads to when
\* cacheTypes visits the complex types in the order of this run
ImportedWithoutBackRefs ==
  importParts(DocsWithoutBackRefs,
              ImportState(unionOwnSchema(RootDef), {}, << >>, ""))

CachedWithoutBackRefs ==
  cacheTypes(ImportedWithoutBackRefs.d.Schema, run.order)

\* C3: when the root document imports a schema whose own import points
\* back to the root document's location, or to the schema itself, import
\* resolution ends as it does on the same documents with the
\* back-reference removed: without an error when that one has none, and
\* with equal cached simple types, complex types and elements.
C3_BackReference ==
  ( /\ world.docs[world.root].root = "definitions"
    /\ BackRefLocs # {}
    /\ ImportedWithoutBackRefs.err = "" )
  => /\ pc = "exit" => exit.how = "ok"
     /\ pc = "cacheFuncs" =>
          /\ run.ge.stypes = CachedWithoutBackRefs.stypes
          /\ run.ge.ctypes = CachedWithoutBackRefs.ctypes
          /\ run.ge.elements = CachedWithoutBackRefs.elements


\* the destination file is as it was before the run: absent, or holding
\* what it held
Untouched ==
  file \in { [ exists |-> FALSE, content |-> "" ],
             [ exists |-> TRUE, content |-> "old" ] }

\* C4: in every run that ends with an error the output destination is
\* left untouched: the output file is neither created, truncated nor
\* written, and the writer of the encoder receives nothing.
C4_DestinationUntouched ==
  (pc = "exit" /\ exit.how = "error") => Untouched /\ w = << >>


\* the complex types of the root schema that hold a sequence of exactly
\* one element occurrence and nothing else
SingleOccurrenceTypes ==
  { ct \in { RootDef.Schema.ComplexTypes[i] : i \in DOMAIN RootDef.Schema.ComplexTypes } :
      /\ ct.ComplexContent = << >> /\ ct.Choice = << >> /\ ct.AllElements = << >>
      /\ ct.Attributes = << >>
      /\ Len(ct.Sequence) = 1
      /\ Len(ct.Sequence[1].Elements) = 1 }

\* the fields of the struct declared under the name n
FieldsOf(n) ==
  { w[1].body.types[i].fields : i \in { i \in DOMAIN w[1].body.types :
                                          w[1].body.types[i].name = goSymbol(n) } }

\* the element whose maxOccurs the field of the occurrence occ is generated
\* from: for a reference the element cached under the referenced name;
\* then, when that element is untyped and its inline sequence holds exactly
\* one element, that inner element
Referenced(occ) ==
  IF occ.Ref # NoQN THEN run.ge.elements[trimns(occ.Ref)] ELSE occ

InnerOf(e) ==
  IF /\ e.Type = NoQN /\ e.ComplexType # << >>
     /\ Len(e.ComplexType[1].Sequence) = 1
     /\ Len(e.ComplexType[1].Sequence[1].Elements) = 1
  THEN e.ComplexType[1].Sequence[1].Elements[1]
  ELSE e

ExtendingTypes ==
  { ct \in { RootDef.Schema.ComplexTypes[i] : i \in DOMAIN RootDef.Schema.ComplexTypes } :
      /\ ct.ComplexContent # << >>
      /\ ct.ComplexContent[1].Extension # << >>
      /\ trimns(ct.ComplexContent[1].Extension[1].Base) \in DOMAIN run.ge.ctypes }

\* the names of the fields of a declaration, in order
FieldNames(fields) == [ i \in DOMAIN fields |-> fields[i].name ]

\* the names the extension ext declares itself: its attributes, then the
\* elements of its sequence
OwnNames(ext) ==
  [ i \in DOMAIN ext.Attributes |-> goSymbol(ext.Attributes[i].Name) ]
    \o (IF ext.Sequence = << >> THEN << >>
        ELSE [ i \in DOMAIN ext.Sequence[1].Elements |->
                 goSymbol(ext.Sequence[1].Elements[i].Name) ])

\* C6: the fields generated for a complex type B that extends a cached
\* type A are the fields generated for A, in A's order, followed by B's
\* own fields (extension attributes, then extension elements), and no
\* field name occurs twice in B's declaration, also when B redeclares a
\* name of A.
C6_ExtensionFlattening ==
  (Finished /\ world.docs[world.root].root = "definitions") =>
    \A b \in ExtendingTypes :
      \A fb \in FieldsOf(b.Name) :
        \A fa \in FieldsOf(trimns(b.ComplexContent[1].Extension[1].Base)) :
          /\ Len(fb) >= Len(fa)
          /\ SubSeq(fb, 1, Len(fa)) = fa
          /\ SubSeq(FieldNames(fb), Len(fa) + 1, Len(fb))
               = OwnNames(b.ComplexContent[1].Extension[1])
          /\ \A i, j \in DOMAIN fb : fb[i].name = fb[j].name => i = j


\* the root document holds nothing but one root-level import, of a
\* location that serves a WSDL document
ImportsOnly ==
  /\ world.docs[world.root].root = "definitions"
  /\ Len(RootDef.Imports) = 1
  /\ RootDef.Schema = EmptySchema
  /\ RootDef.Messages = << >>
  /\ RootDef.PortType = NoPortType
  /\ RootDef.Binding = NoBinding
  /\ Opened(RootDef.Imports[1].Location) \in DOMAIN world.docs
  /\ world.docs[Opened(RootDef.Imports[1].Location)].root = "definitions"

\* what Encode gives when started on the imported document itself
DirectRun ==
  Encode(world.docs, world.docs[Opened(RootDef.Imports[1].Location)].def[1])

\* C7: a root document that holds nothing but a root-level import of
\* another WSDL document generates the same output as generating from the
\* imported document directly: the same types, each with the same target
\* namespace and so the same SetXMLType, the same messages, operations and
\* bindings.
C7_RootImportTransparent ==
  (ImportsOnly /\ Finished) => DirectRun.how = "ok" /\ w = DirectRun.text


\* the locations fetched during the run, in order
Fetched == run.log

\* C8: during one run no import location is fetched more than once, be it
\* an http(s) URL or a local file path: every location fetched is
\* recorded in the set of imported locations, and a later import of a
\* recorded location fetches nothing.
C8_FetchedOnce ==
  /\ \A i, j \in DOMAIN Fetched : Fetched[i] = Fetched[j] => i = j
  /\ \A i \in DOMAIN Fetched : Fetched[i] \in run.imported


\* the functions generated for the operation op: those named after it, or
\* after it with the suffix a conflict with a type name adds, once or twice
FuncsOf(op) ==
  { i \in DOMAIN Funcs :
      Funcs[i].name \in { goSymbol(op.Name), AppendFunc(goSymbol(op.Name)),
                          AppendFunc(AppendFunc(goSymbol(op.Name))) } }

\* the output types declared for op: the types of the parts of its
\* output message
DeclaredOutputs(op) ==
  IF op.Output = << >> THEN << >>
  ELSE codeParams(genParams(run.ge, run.ge.messages[trimns(op.Output[1].Message)].Parts))

\* f is the stub of op: a context first, the declared output types and an
\* error as results, one default per result and the error "not implemented"
IsStubOf(f, op) ==
  /\ f.kind = "stub"
  /\ f.in # << >> /\ f.in[1] = "ctx context.Context"
  /\ f.out = DeclaredOutputs(op) \o << GoType(FALSE, "error") >>
  /\ Len(f.ret) = Len(f.out)
  /\ f.ret[Len(f.ret)] = "errors.New(\"not implemented\")"
  /\ f.calls = << >>

\* C11: every port-type operation yields exactly one generated function: a
\* method of the private port type when the operation has a binding entry,
\* otherwise a package-level stub that takes a context first, returns the
\* declared output types followed by an error, and whose body returns one
\* default per result and a "not implemented" error.
C11_OneFunctionPerOperation ==
  (Finished /\ world.docs[world.root].root = "definitions") =>
    /\ Len(Funcs) = Cardinality(PortTypeOps)
    /\ \A op \in PortTypeOps :
         \E i \in DOMAIN Funcs :
           /\ FuncsOf(op) = { i }
           /\ IF op.Name \in DOMAIN run.ge.soapOps
              THEN Funcs[i].kind = "method"
              ELSE IsStubOf(Funcs[i], op)

\* a completed run that wrote a method for one operation and a stub with
\* an output type for another
C11_Witness ==
  /\ Finished
  /\ \E i, j \in DOMAIN Funcs :
       /\ Funcs[i].kind = "method"
       /\ Funcs[j].kind = "stub" /\ Len(Funcs[j].out) = 2


\* every message a port-type operation names is declared
MessagesDefined == \A op \in PortTypeOps : MissingOf(op) = {}

\* C12: when the binding declares a type whose local name differs from the
\* name of the port type, the run ends with the error that names the
\* binding and the port type it requires, and nothing is written to the
\* output writer.
C12_BindingMismatch ==
  (pc = "exit" /\ run.d # << >> /\ ~BindingMatches /\ MessagesDefined)
  => /\ exit.how = "error"
     /\ exit.err = BindingErr(run.d[1].Binding)
     /\ w = << >>


\* the locations the schema of the root document imports whose scheme is
\* neither http(s) nor that of a plain local path
OtherSchemeImports ==
  { RootDef.Schema.Imports[i].Location : i \in
      { i \in DOMAIN RootDef.Schema.Imports :
          RootDef.Schema.Imports[i].Location.scheme \notin { "http", "https", "" } } }

\* C13: when the root schema imports a location whose scheme is neither
\* http(s) nor a plain local path, the run ends with the error for an
\* unsupported location, and nothing was opened for that location.
C13_UnsupportedScheme ==
  ( /\ pc = "exit" /\ world.docs[world.root].root = "definitions"
    /\ OtherSchemeImports # {} )
  => /\ exit.how = "error"
     /\ exit.err = ImportErr("unsupported location")
     /\ \A i \in DOMAIN Fetched : Fetched[i] \notin OtherSchemeImports


\* C14: goSymbol is idempotent: applied to its own result it returns that
\* result, whatever prefix, digits, underscores, dots and punctuation the
\* input holds.
C14_Idempotent ==
  (pc = "done" /\ world.fn = "goSymbol") => w = run

\* goSymbol was applied twice to a name with a colon and a digit before a
\* dot, and the first application changed the name
C14_Witness ==
  /\ pc = "done" /\ world.fn = "goSymbol"
  /\ world.input = << ":", "1", ".", "z" >>
  /\ run = << "Z" >>


\* the characters of the binding name other than dots, in lower case
LoweredWithoutDots ==
  LET NotDot(c) == c # "."
      kept == SelectSeq(world.input, NotDot)
  IN  [ i \in DOMAIN kept |-> ToLowerRune(kept[i]) ]

\* C19: BindingPackageName.String returns the binding name in lower case
\* with every dot removed, or "internal" when that is empty; the result
\* holds no upper-case letter and no dot and is never empty.
C19_PackageName ==
  (pc = "done" /\ world.fn = "String") =>
    /\ run = IF LoweredWithoutDots = << >> THEN fallbackPackageName
             ELSE LoweredWithoutDots
    /\ run # << >>
    /\ \A i \in DOMAIN run : ~IsUpper(run[i]) /\ run[i] # "."

\* String was applied to a binding name with upper-case letters and a dot
C19_Witness ==
  /\ pc = "done" /\ world.fn = "String"
  /\ world.input = << "A", ".", "Z", "1" >>
  /\ run = << "a", "z", "1" >>


\* the parameter names of the signature of the generated function f, the
\* context of a stub left out
SignatureNames(f) ==
  LET params == IF f.kind = "stub" THEN Tail(f.in) ELSE f.in
  IN  [ k \in DOMAIN params |-> params[k].name ]

\* the names the body of the method f passes on to the request
BodyNames(f) == [ k \in DOMAIN f.names |-> f.names[k].name ]

\* the names of the parts of the input message of op
InputPartNames(op) ==
  IF op.Input = << >> THEN << >>
  ELSE LET parts == run.ge.messages[trimns(op.Input[1].Message)].Parts
       IN  [ k \in DOMAIN parts |-> parts[k].Name ]

\* the identifier id stands for the part named name: the name itself when
\* it is no keyword, and otherwise the name behind an underscore, which no
\* keyword begins with
StandsFor(id, name) ==
  /\ id.name = name
  /\ id.masked <=> name \in isGoKeyword

\* the identifiers of ids stand for the names, one by one
AllStandFor(ids, names) ==
  /\ Len(ids) = Len(names)
  /\ \A k \in DOMAIN ids : StandsFor(ids[k], names[k])

\* the interface functions of the generated text
InterfaceFuncs ==
  IF w[1].body.iface = << >> THEN << >> ELSE w[1].body.iface[1].Funcs

SimpleDecls == w[1].body.simple

\* the cached simple types that have a restriction
RestrictedTypes ==
  { n \in DOMAIN run.ge.stypes : run.ge.stypes[n].Restriction # << >> }

\* the literal values of the enumeration of the restricted type n
EnumValues(n) ==
  LET enum == run.ge.stypes[n].Restriction[1].Enum
  IN  { enum[i].Value : i \in DOMAIN enum }

\* a Go value: its dynamic type and what it holds
GoValue(type, val) == [ type |-> type, val |-> val ]

\* reflect.DeepEqual on values of basic kinds: values of distinct types
\* are never deeply equal
DeepEqual(a, b) == a.type = b.type /\ a.val = b.val

\* the values the generated Validate accepts: those v of the declared type
\* for which reflect.DeepEqual(v, vv) holds of some vv of the slice literal
\* "[]Type{ Args }"
Accepted(decl) ==
  LET val == decl.validator[1]
  IN  { v \in UNION { EnumValues(n) : n \in RestrictedTypes } \cup { "" } :
          \E k \in DOMAIN val.Args :
            DeepEqual(GoValue(GoType(FALSE, val.TypeName), v),
                      GoValue(val.Type, val.Args[k].text)) }

\* every restricted simple type has one alias of its mapped base type, and
\* a validator with the literals of its enumeration, quoted for strings,
\* exactly when the enumeration is not empty
AliasesAndValidators ==
  \A n \in RestrictedTypes :
    \E i \in DOMAIN SimpleDecls :
      /\ \A j \in DOMAIN SimpleDecls : SimpleDecls[j].name = goSymbol(n) <=> j = i
      /\ SimpleDecls[i].type = wsdl2goType(run.ge, run.ge.stypes[n].Restriction[1].Base)
      /\ SimpleDecls[i].validator # << >> <=> EnumValues(n) # {}
      /\ SimpleDecls[i].validator # << >> =>
           LET val == SimpleDecls[i].validator[1]
           IN  /\ val.TypeName = goSymbol(n)
               /\ { val.Args[k].text : k \in DOMAIN val.Args } = EnumValues(n)
               /\ \A k \in DOMAIN val.Args :
                    val.Args[k].quoted <=>
                      SimpleDecls[i].type = GoType(FALSE, "string")

\* C16: every cached simple type with a restriction yields a named alias
\* of the mapped base type; a validator is emitted exactly when the
\* enumeration of the restriction is not empty, and the values it accepts
\* are exactly the literal values of the enumeration.
C16_EnumerationValidator ==
  (Finished /\ world.docs[world.root].root = "definitions") =>
    /\ AliasesAndValidators
    /\ \A n \in RestrictedTypes : \A i \in DOMAIN SimpleDecls :
         (SimpleDecls[i].name = goSymbol(n) /\ SimpleDecls[i].validator # << >>)
           => Accepted(SimpleDecls[i]) = EnumValues(n)


\* the cached complex types that are not abstract
ConcreteTypes ==
  { n \in DOMAIN run.ge.ctypes : ~run.ge.ctypes[n].Abstract }

\* the declarations of the generated text for the complex type named n
DeclsOf(n) ==
  { i \in DOMAIN w[1].body.types :
      /\ w[1].body.types[i].name = goSymbol(n)
      /\ w[1].body.types[i].kind # "opstruct" }

\* ct has an element in its all content, in its sequence, in a choice of
\* its sequence or in its choice
HasElements(ct) ==
  \/ Len(ct.AllElements) > 0
  \/ /\ ct.Sequence # << >>
     /\ \/ Len(ct.Sequence[1].Elements) > 0
        \/ \E k \in DOMAIN ct.Sequence[1].Choices :
             Len(ct.Sequence[1].Choices[k].Elements) > 0
  \/ ct.Choice # << >> /\ Len(ct.Choice[1].Elements) > 0

HasExtension(ct) ==
  ct.ComplexContent # << >> /\ ct.ComplexContent[1].Extension # << >>

\* an element declared in place, or a reference to a cached element
IsDeclared(el) == el.Ref = NoQN \/ trimns(el.Ref) \in DOMAIN run.ge.elements

\* ct has a declared element in its all content, in its sequence, in a
\* choice of its sequence or in its choice, and not both a sequence and a
\* choice
HasDeclaredElements(ct) ==
  /\ ct.Sequence = << >> \/ ct.Choice = << >>
  /\ \/ \E k \in DOMAIN ct.AllElements : IsDeclared(ct.AllElements[k])
     \/ /\ ct.Sequence # << >>
        /\ \/ \E k \in DOMAIN ct.Sequence[1].Elements :
                IsDeclared(ct.Sequence[1].Elements[k])
           \/ \E c \in DOMAIN ct.Sequence[1].Choices :
                \E k \in DOMAIN ct.Sequence[1].Choices[c].Elements :
                  IsDeclared(ct.Sequence[1].Choices[c].Elements[k])
     \/ /\ ct.Choice # << >>
        /\ \E k \in DOMAIN ct.Choice[1].Elements :
             IsDeclared(ct.Choice[1].Elements[k])

\* ct has a wildcard and no element in its sequence or in its choice
IsOpenContent(ct) ==
  \/ ct.Sequence # << >> /\ ct.Sequence[1].Any # << >>
       /\ Len(ct.Sequence[1].Elements) = 0
  \/ ct.Choice # << >> /\ ct.Choice[1].Any # << >>
       /\ Len(ct.Choice[1].Elements) = 0

\* the complexContent restriction of ct declares a SOAP array type
IsSOAPArray(ct) ==
  /\ ct.ComplexContent # << >> /\ ct.ComplexContent[1].Restriction # << >>
  /\ \E a \in { ct.ComplexContent[1].Restriction[1].Attributes } :
       Len(a) = 1 /\ a[1].ArrayType # ""

\* a struct declaration without schema-derived field
IsEmptyStruct(decl) == decl.kind = "struct" /\ decl.fields = << >>

\* every concrete cached complex type has exactly one declaration
OneDeclarationEach == \A n \in ConcreteTypes : Cardinality(DeclsOf(n)) = 1

RECURSIVE Places(_)
Places(v) ==
  { << >> } \cup UNION { { << i >> \o p : p \in Places(v.elems[i]) } :
                         i \in 1..Len(v.elems) }

RECURSIVE At(_, _)
At(v, p) == IF p = << >> THEN v ELSE At(v.elems[p[1]], Tail(p))

Front(p) == SubSeq(p, 1, Len(p) - 1)

\* reflection can take the address of the value at place p: it is the
\* pointee of a pointer, an element of a slice, or a field of such a struct
RECURSIVE Addressable(_, _)
Addressable(v, p) ==
  IF p = << >> THEN FALSE
  ELSE LET parent == At(v, Front(p))
       IN CASE parent.kind \in { "ptr", "slice" } -> TRUE
            [] parent.kind = "struct" -> Addressable(v, Front(p))
            [] OTHER -> FALSE

\* the pointees of the non-nil pointers of the message that implement XMLTyper
TyperPointees(v) ==
  { p \in Places(v) \ { << >> } :
      At(v, Front(p)).kind = "ptr" /\ At(v, Front(p)).typer }

\* the struct-valued fields whose address implements XMLTyper
TyperFields(v) ==
  { p \in Places(v) \ { << >> } :
      /\ At(v, Front(p)).kind = "struct"
      /\ At(v, p).kind = "struct" /\ At(v, p).typer }

\* the message with every attribute as it was before the calls
RECURSIVE Unset(_)
Unset(v) ==
  [ v EXCEPT !.xsi = FALSE,
             !.elems = [ i \in 1..Len(v.elems) |-> Unset(v.elems[i]) ] ]

Serialized == pc \in { "post", "returned" } /\ w # << >>

\* C18 (as amended): in every round trip, once the request envelope is
\* serialized, SetXMLType has run on the pointee of every non-nil pointer
\* of the request message that implements XMLTyper and on every
\* struct-valued field of an addressable struct whose address implements
\* it; only such values carry the attribute it sets, and the message is
\* otherwise what the caller passed.
C18_TypesSetBeforeEncoding ==
  Serialized =>
    LET body == w[1].Body
    IN /\ \A p \in TyperPointees(world.in) : At(body, p).xsi
       /\ \A p \in TyperFields(world.in) :
            Addressable(world.in, p) => At(body, p).xsi
       /\ \A p \in Places(body) :
            At(body, p).xsi =>
              /\ At(body, p).kind = "struct" /\ At(body, p).typer
              /\ p \in TyperPointees(world.in) \cup TyperFields(world.in)
       /\ Unset(body) = world.in

\* C18 witness: a serialized request whose struct, reached through a
\* pointer, has a struct-valued field that got its type set, next to a
\* nested pointer that did too
C18_Witness ==
  /\ Serialized
  /\ world.in = PtrTo(Struct(FALSE, << PtrTo(Struct(TRUE, << >>)),
                                       Struct(TRUE, << >>) >>))
  /\ w[1].Body.elems[1].elems[1].elems[1].xsi
  /\ w[1].Body.elems[1].elems[2].xsi
  /\ ~ w[1].Body.elems[1].xsi

\* C18 (as stated): every struct-valued field whose address implements
\* XMLTyper has had SetXMLType run on it before the envelope is serialized,
\* whether or not the struct holding it can be addressed.
C18_EveryStructField ==
  Serialized =>
    \A p \in TyperPointees(world.in) \cup TyperFields(world.in) :
      At(w[1].Body, p).xsi

\* the types named in the signatures of the generated functions, in the
\* interface and as functions, and in the type declarations
TypesOfFuncs(fs) ==
  UNION { { (IF fs[i].kind = "stub" THEN Tail(fs[i].in) ELSE fs[i].in)[k].type :
              k \in 1..(Len(fs[i].in) - (IF fs[i].kind = "stub" THEN 1 ELSE 0)) }
            \cup { fs[i].out[k] : k \in DOMAIN fs[i].out } : i \in DOMAIN fs }

TypesOfInterface(fs) ==
  UNION { { fs[i].Input[k].type : k \in DOMAIN fs[i].Input }
            \cup { fs[i].Output[k] : k \in DOMAIN fs[i].Output } : i \in DOMAIN fs }

ReferredTypeNames ==
  { t.name : t \in TypesOfFuncs(Funcs) \cup TypesOfInterface(InterfaceFuncs)
                     \cup fieldTypes(w[1].body.types)
                     \cup { SimpleDecls[i].type : i \in DOMAIN SimpleDecls } }

DefinedDateTypes == { w[1].body.dates[i] : i \in DOMAIN w[1].body.dates }

MarkerTypeNames == { DateTypeNames[i] : i \in DOMAIN DateTypeNames }

\* the only reference to the marker type n is in the stub of an operation
\* without binding entry, written after the types
OnlyStubRefers(n) ==
  /\ \E i \in DOMAIN Funcs : Funcs[i].kind = "stub"
       /\ n \in { t.name : t \in TypesOfFuncs(<< Funcs[i] >>) }
  /\ n \notin { t.name : t \in TypesOfInterface(InterfaceFuncs)
                         \cup fieldTypes(w[1].body.types)
                         \cup { SimpleDecls[i].type : i \in DOMAIN SimpleDecls } }
  /\ \A i \in DOMAIN Funcs :
       Funcs[i].kind = "method" =>
         n \notin { t.name : t \in TypesOfFuncs(<< Funcs[i] >>) }
  /\ \E i \in DOMAIN Funcs : Funcs[i].kind = "method"

\* C20: in the generated text the definition of a marker type (Date, Time,
\* DateTime, Duration) is present if and only if some emitted declaration
\* refers to that type; in particular it is present when the only reference
\* is in the stub of an operation without binding entry, next to operations
\* that have one.
C20_MarkerTypesDefined ==
  (Finished /\ w # << >>) =>
    \A n \in MarkerTypeNames :
      /\ n \in DefinedDateTypes <=> n \in ReferredTypeNames
      /\ OnlyStubRefers(n) => n \in DefinedDateTypes

\* the schemas of a chain: the schema at loc and those its imports and
\* includes lead to, over at most fuel links
RECURSIVE ChainFrom(_, _)
ChainFrom(loc, fuel) ==
  IF fuel = 0 \/ loc \notin DOMAIN world.docs \/ world.docs[loc].root # "schema"
  THEN {}
  ELSE LET s == world.docs[loc].schema[1]
       IN { s } \cup UNION { ChainFrom(s.Imports[i].Location, fuel - 1) :
                               i \in DOMAIN s.Imports }
                \cup UNION { ChainFrom(s.Includes[i].Location, fuel - 1) :
                               i \in DOMAIN s.Includes }

ChainSchemas ==
  UNION { ChainFrom(RootDef.Schema.Imports[i].Location, 3) :
            i \in DOMAIN RootDef.Schema.Imports }

NamesOf(seq) == { seq[i].Name : i \in DOMAIN seq }

\* the unified schema holds everything the schema s declares
Unified(s) ==
  /\ NamesOf(s.SimpleTypes) \subseteq NamesOf(run.d[1].Schema.SimpleTypes)
  /\ NamesOf(s.ComplexTypes) \subseteq NamesOf(run.d[1].Schema.ComplexTypes)
  /\ NamesOf(s.Elements) \subseteq NamesOf(run.d[1].Schema.Elements)

\* C21: for a chain of schema imports or includes at pairwise distinct
\* locations (the root schema imports S1, S1 imports or includes S2, S2
\* imports or includes S3), import resolution succeeds and the unified
\* schema then holds the simple types, complex types and elements of
\* every schema of the chain.
C21_ChainUnified ==
  world.fam = "chain" =>
    /\ pc = "exit" => exit.how = "ok"
    /\ pc = "cacheFuncs" => \A s \in ChainSchemas : Unified(s)

\* the elements registered from the top-level elements of the unified
\* schema alone, in document order, each followed by those nested in it
TopLevelElements == cacheElements(<< >>, run.d[1].Schema.Elements)

\* a registration made from the top-level elements is never replaced
TopLevelKept ==
  \A n \in DOMAIN TopLevelElements :
    n \in DOMAIN run.ge.elements /\ run.ge.elements[n] = TopLevelElements[n]

\* the registered occurrences are those of every other run on the document
SameInEveryRun ==
  \A order \in Orders(DOMAIN run.ge.ctypes) :
    cacheTypes(run.d[1].Schema, order).elements = run.ge.elements

\* C22: after cache building the element cached under a name is the first
\* occurrence of the name in the fixed order (top-level elements in document
\* order, each followed by the elements nested in it, then the elements
\* nested in complex types); a later occurrence never replaces an earlier
\* registration and the registered occurrence is the same in every run.
C22_FirstRegistrationWins ==
  pc = "cacheFuncs" => TopLevelKept /\ SameInEveryRun

\* the position of the operation a generated name belongs to, in the port
\* type of the document
PositionOf(name) ==
  CHOOSE k \in DOMAIN RootDef.PortType.Operations :
    name \in { goSymbol(RootDef.PortType.Operations[k].Name),
               AppendFunc(goSymbol(RootDef.PortType.Operations[k].Name)) }

\* the names follow one another as their operations do in the port type
InDocumentOrder(names) ==
  \A i, j \in DOMAIN names :
    i < j => PositionOf(names[i]) < PositionOf(names[j])

\* C23: the generated functions and the methods of the interface are
\* written in the same relative order as their operations appear in the
\* port type of the document.
C23_DocumentOrder ==
  (Finished /\ world.fam \in { "ops", "keyword", "date" }) =>
    /\ InDocumentOrder([ i \in DOMAIN Funcs |-> Funcs[i].name ])
    /\ InDocumentOrder([ i \in DOMAIN InterfaceFuncs |-> InterfaceFuncs[i].Name ])

\* C24: the names of the two lists when fixParamConflicts has returned
NamesOfParams(params) == { params[i].Name : i \in DOMAIN params }

\* the output parameters of the call whose name was the name of an input
Collided ==
  { j \in DOMAIN world.out : world.out[j].Name \in NamesOfParams(world.in) }

\* C24: fixParamConflicts returns for every pair of parameter lists, and
\* when it has returned no output parameter has the name of an input
\* parameter, the input parameters are the ones passed in, the output
\* parameters differ from the ones passed in by their names only, and an
\* output parameter whose name was the name of no input is as passed in.
C24_ConflictsFixed ==
  /\ [](pc = "returned" =>
          /\ NamesOfParams(run.in) \cap NamesOfParams(run.out) = {}
          /\ run.in = world.in
          /\ Len(run.out) = Len(world.out)
          /\ \A j \in DOMAIN world.out :
               /\ run.out[j].Type = world.out[j].Type
               /\ run.out[j].XMLName = world.out[j].XMLName
               /\ j \notin Collided => run.out[j] = world.out[j])
  /\ <>(pc = "returned")

\* C24 witness: a call that has returned after renaming one output parameter
\* twice, the first new name being the name of an input as well, next to an
\* output parameter it left alone
C24_Witness ==
  /\ pc = "returned"
  /\ \E j \in Collided :
       run.out[j].Name = respName(respName(world.out[j].Name, j - 1), j - 1)
  /\ \E j \in DOMAIN world.out : j \notin Collided /\ run.out[j] = world.out[j]



\* whether genElementField collapses e: it has no type, and the sequence of
\* its inline complex type, or else its choice, holds exactly one element
Collapsible(e) ==
  /\ e.Type = NoQN /\ e.ComplexType # << >>
  /\ LET ct == e.ComplexType[1]
     IN  \/ ct.Sequence # << >> /\ Len(ct.Sequence[1].Elements) = 1
         \/ /\ ct.Sequence = << >> /\ ct.Choice # << >>
            /\ Len(ct.Choice[1].Elements) = 1

\* the single inner element of a collapsible element
SingleChild(e) ==
  LET ct == e.ComplexType[1]
  IN  IF ct.Sequence # << >> THEN ct.Sequence[1].Elements[1]
      ELSE ct.Choice[1].Elements[1]

\* the complex types of the root schema whose only content is one
\* collapsible element written in place
CollapsingTypes ==
  { ct \in SingleOccurrenceTypes :
      /\ ct.Sequence[1].Elements[1].Ref = NoQN
      /\ Collapsible(ct.Sequence[1].Elements[1]) }

\* the field the claim describes for outer and its single child inner
IsCollapsedSlice(f, outer, inner) ==
  /\ f.name = goSymbol(outer.Name)
  /\ f.slice
  /\ f.typ.name =
       wsdl2goType(run.ge, IF inner.Type = NoQN THEN QN("", "string")
                           ELSE inner.Type).name
  /\ f.tag.outer = outer.Name /\ f.tag.inner = inner.Name

\* C25: an element without type whose inline sequence or choice holds
\* exactly one element is emitted as one field named after the outer
\* element, a slice of the inner element's type tagged outer>inner,
\* whatever maxOccurs the inner element declares, and no struct is declared
\* under the outer element's name for it.
C25_CollapsedSlice ==
  (Finished /\ world.docs[world.root].root = "definitions") =>
    \A ct \in CollapsingTypes : \A fields \in FieldsOf(ct.Name) :
      LET outer == ct.Sequence[1].Elements[1]
      IN  /\ Len(fields) = 1
          /\ IsCollapsedSlice(fields[1], outer, SingleChild(outer))
          /\ outer.Name \notin DOMAIN run.ge.ctypes => FieldsOf(outer.Name) = {}



\* a field emitted as optional, and one emitted as required
EmittedOptional(f) == f.tag.omitempty /\ f.typ.ptr
EmittedRequired(f) == ~f.tag.omitempty

\* C26: a struct field is emitted as optional, its tag carrying omitempty
\* and its type a pointer, if and only if its element is nillable or
\* declares minOccurs="0"; an element that is not nillable and declares
\* minOccurs="1" or no minOccurs at all is emitted as a required field.
C26_OptionalIffDeclared ==
  (Finished /\ world.fam = "occurs") =>
    \A fields \in FieldsOf("A") :
      /\ Len(fields) = Len(OccursWritten)
      /\ \A i \in DOMAIN OccursWritten :
           LET o == OccursWritten[i]
           IN  /\ EmittedOptional(fields[i]) <=> (o.nillable \/ o.minOccurs = "0")
               /\ (~o.nillable /\ o.minOccurs \in { "", "1" })
                    => EmittedRequired(fields[i])



\* the schema primitives among the local names, by their lower-case
\* spelling, with the Go type of each
PrimitiveGo ==
  [ l \in { "int", "string", "date", "datetime", "duration" } |->
      CASE l = "int" -> "int" [] l = "string" -> "string" [] l = "date" -> "Date"
        [] l = "datetime" -> "DateTime" [] l = "duration" -> "Duration" ]

\* the marker types among the Go types of the primitives
MarkerOf(goName) ==
  IF goName \in { "Date", "Time", "DateTime", "Duration" } THEN { goName } ELSE {}

\* C27: wsdl2goType resolves a qualified name by its local name in strict
\* priority: a cached simple type of that local name gives its sanitized
\* name, also when the name is a primitive's up to case; otherwise the
\* primitive table, matched without regard to case, gives the Go type;
\* otherwise the result is a pointer to the sanitized name. A marker flag
\* is set on the primitive path only, and no flag is ever cleared.
C27_TypePriority ==
  (world.fn = "wsdl2goType" /\ pc # "call") =>
    LET v == world.t.local
        l == ToLower(v)
    IN  /\ \A i \in DOMAIN w :
             IF v \in world.stypes THEN w[i] = GoType(FALSE, goSymbol(v))
             ELSE IF l \in DOMAIN PrimitiveGo THEN w[i] = GoType(FALSE, PrimitiveGo[l])
             ELSE w[i] = GoType(TRUE, goSymbol(v))
        /\ run.ge.needsDateTypes =
             world.needs \cup (IF v \notin world.stypes /\ l \in DOMAIN PrimitiveGo
                               THEN MarkerOf(PrimitiveGo[l]) ELSE {})

\* C27 witness: the name of a cached simple type that is a primitive's up to
\* case resolved to the simple type, under a prefix, without a flag set
C27_Witness ==
  /\ world.fn = "wsdl2goType" /\ pc = "done"
  /\ world.t.local \in world.stypes
  /\ world.t.pfx = "xs"
  /\ ToLower(world.t.local) = "date"
  /\ w = << GoType(FALSE, "Date"), GoType(FALSE, "Date") >>
  /\ run.ge.needsDateTypes = {}



\* the port-type operations with a binding entry that declare no input
\* message, or no output message
BoundWithoutInput ==
  { op \in PortTypeOps : op.Input = << >> /\ \E bo \in BoundOps : bo.Name = op.Name }
BoundWithoutOutput ==
  { op \in PortTypeOps : op.Output = << >> /\ \E bo \in BoundOps : bo.Name = op.Name }

\* C28: when an operation with a binding entry declares no input message,
\* or no output message, the run ends with generated code or with an error,
\* never with a crash; in the generated code its method takes no message
\* parameter, respectively returns the error alone, and under rpc style its
\* request is the zero-field wrapper struct{}.
C28_AbsentMessages ==
  (pc = "exit" /\ run.d # << >> /\ BoundWithoutInput \cup BoundWithoutOutput # {})
  => /\ exit.how \in { "ok", "error" }
     /\ exit.how = "ok" =>
          /\ \A op \in BoundWithoutInput : \A i \in MethodsOf(op.Name) :
               /\ Funcs[i].in = << >>
               /\ IsRPCStyle(run.d[1].Binding) =>
                    \A k \in DOMAIN Funcs[i].request :
                      Funcs[i].request[k].type = "struct{}"
          /\ \A op \in BoundWithoutOutput : \A i \in MethodsOf(op.Name) :
               Funcs[i].out = codeParams(<< ErrParam >>)



\* the cached complex type that ct extends, if any
BaseOf(ct) ==
  IF /\ ct.ComplexContent # << >> /\ ct.ComplexContent[1].Extension # << >>
     /\ ct.ComplexContent[1].Extension[1].Base # NoQN
     /\ trimns(ct.ComplexContent[1].Extension[1].Base) \in DOMAIN run.ge.ctypes
  THEN { trimns(ct.ComplexContent[1].Extension[1].Base) }
  ELSE {}

\* the names of the cached types reached from the type named n by following
\* extension bases, n itself left out unless a base leads back to it
RECURSIVE BasesFrom(_, _)
BasesFrom(names, seen) ==
  LET next == UNION { BaseOf(run.ge.ctypes[n]) : n \in names }
  IN  IF next \subseteq seen THEN seen ELSE BasesFrom(next \ seen, seen \cup next)

\* the cached complex types whose extension bases form a cycle through them
CyclicTypes == { n \in DOMAIN run.ge.ctypes : n \in BasesFrom({ n }, {}) }

\* C29: struct field generation terminates for every cached set of complex
\* types, also when extension bases form a cycle: a run that has cached
\* such types ends, and not with the stack of the recursion exhausted.
C29_FieldsTerminate ==
  (pc = "exit" /\ run.d # << >> /\ CyclicTypes # {} /\ PortTypeOps = {})
    => exit.how \in { "ok", "error" }



\* the names of the type declarations of the generated text: simple types
\* and structs
DeclaredTypeNames ==
  { SimpleDecls[i].name : i \in DOMAIN SimpleDecls }
    \cup { w[1].body.types[i].name : i \in DOMAIN w[1].body.types }

\* the names of the stubs of the generated text
StubNames == { Funcs[i].name : i \in { i \in DOMAIN Funcs : Funcs[i].kind = "stub" } }

\* C30: fixFuncNameConflicts returns, and the name of every generated stub
\* differs from the name of every generated type declaration, simple or
\* complex, as emitted after sanitization, also when the schema type name
\* and the operation name differ only in the case of their first letter.
C30_StubNamesDistinct ==
  Finished => StubNames \cap DeclaredTypeNames = {}

=============================================================================
